---- MODULE Spec2Model ----
(***************************************************************************)
(* Model of the single-symbol matching engine of Orderbooook:              *)
(* engine-core/src/engine.rs (command handlers) and                        *)
(* engine-core/src/orderbook/{orderbook,price_levels,types}.rs (the book). *)
(* One action per command handler; the matching loops are recursive        *)
(* operators that follow the Rust control flow statement by statement.     *)
(* Wall-clock timestamps and the constant symbol string are left out: no   *)
(* branch of the code reads them.                                          *)
(***************************************************************************)
EXTENDS Integers, Sequences, FiniteSets, TLC

\* ------------------------------------------------------------------ bounds
\* number of PlaceOrder commands admitted (order ids 1..MaxOrders)
MaxOrders == 3
\* prices are drawn from 0..MaxPrice (and "absent")
MaxPrice == 2
\* quantities are drawn from 0..MaxQty
MaxQty == 2
MaxCommands == 3

\* ------------------------------------------------------- program constants
CACHE_LIMIT == 25
\* the limit passed to get_depth by the engine
DEPTH_LIMIT == 20

\* Option<Price>::None
NoPrice == -1

\* user ids are only copied into events, no branch reads them: orders are placed
\* by one user, cancels come from the owner or from somebody else
Users == {100, 200}
PlaceUsers == {100}
Sides == {"Buy", "Sell"}
OrderTypes == {"Limit", "Market"}
Prices == {NoPrice} \cup (0..MaxPrice)
Quantities == 0..MaxQty
Producers == Users

\* the symbol the gateway's engine is built with, and the symbols a cancel request may name
BookSymbol == "SOL_USDC"

Symbols == {BookSymbol, "BTC_USDC"}

VARIABLES
    orderbook,      \* Engine.orderbook: orders, bids, asks, depth_cache, next_trade_id
    next_order_id,  \* the admission layer's order id counter
    cmd,            \* the command the engine processed last
    out,            \* the events that command sent on event_tx, in order
    reply,          \* what that command sent on its reply channel
    trade_log,      \* trade ids of all Trade events sent so far, in order
    terminal,       \* ids of the orders a sent event reported filled or cancelled
    book_before,    \* the order book as the command processed last found it
    order_rx,       \* the inbound channel: the commands sent and not yet received
    senders,        \* the producers that still hold a Sender of the inbound channel
    pc,             \* where Engine::run is: "loop", "shutdown" (after break), "returned"
    event_tx,       \* the engine's Sender of the outbound channel: "open" or "dropped"
    stream,         \* per event sent on event_tx, the number of the command it came from
    enqueued,       \* the number of commands sent on the inbound channel so far
    processed,      \* the number of commands the engine has handled so far
    walking,        \* the matching loop of a Place run step by step: its position
                    \* (pc "idle" when none runs), its order, loop state and prices
    consumed,       \* the number of events the consumer has received from event_rx
    gateway         \* the gateway's threads: where main is in its shutdown sequence
                    \* and where the broadcaster is ("loop" or "returned")

run_vars == <<order_rx, senders, pc, event_tx, stream, enqueued, processed, walking, consumed, gateway>>

vars == <<orderbook, next_order_id, cmd, out, reply, trade_log, terminal, book_before,
          order_rx, senders, pc, event_tx, stream, enqueued, processed, walking, consumed, gateway>>

\* ----------------------------------------------------------------- helpers
Min(a, b) == IF a <= b THEN a ELSE b

\* u64::saturating_sub
SaturatingSub(a, b) == IF a >= b THEN a - b ELSE 0

\* u64::saturating_add; the bounded quantities stay far below u64::MAX
SaturatingAdd(a, b) == a + b

\* Option::unwrap_or(0)
UnwrapOr0(p) == IF p = NoPrice THEN 0 ELSE p

EmptyMap == [k \in {} |-> k]

MapRemove(m, k) == [x \in (DOMAIN m) \ {k} |-> m[x]]

MapInsert(m, k, v) == [x \in (DOMAIN m) \cup {k} |-> IF x = k THEN v ELSE m[x]]

SetMin(S) == CHOOSE x \in S : \A y \in S : x <= y

SetMax(S) == CHOOSE x \in S : \A y \in S : x >= y

RECURSIVE Ascending(_)
Ascending(S) == IF S = {} THEN << >> ELSE <<SetMin(S)>> \o Ascending(S \ {SetMin(S)})

RECURSIVE Descending(_)
Descending(S) == IF S = {} THEN << >> ELSE <<SetMax(S)>> \o Descending(S \ {SetMax(S)})

\* ------------------------------------------------------------- OrderEntry
OrderEntry_new(order_id, user_id, side, price, quantity) ==
    [order_id |-> order_id, user_id |-> user_id, side |-> side, price |-> price,
     quantity |-> quantity, remaining_quantity |-> quantity]

\* "" when the entry is valid, else the error message
validate_order(entry) ==
    IF entry.quantity = 0 THEN "Quantity must be greater than 0"
    ELSE IF entry.price <= 0 THEN "Price must be greater than 0"
    ELSE ""

fill(entry, quantity) ==
    IF quantity > entry.remaining_quantity
    THEN [err |-> "Quantity must be less than or equal to the remaining quantity",
          entry |-> entry]
    ELSE [err |-> "",
          entry |-> [entry EXCEPT !.remaining_quantity = SaturatingSub(@, quantity)]]

\* ------------------------------------------------------------- PriceLevel
PriceLevel_new(price) == [price |-> price, orders |-> << >>, total_quantity |-> 0]

\* mutant: the aggregate grows but the id is not queued
PriceLevel_add_order_no_push(level, order_id, quantity) ==
    [level EXCEPT !.total_quantity = SaturatingAdd(@, quantity)]

\* mutant: the id is queued at the front
PriceLevel_add_order_push_front(level, order_id, quantity) ==
    [level EXCEPT !.orders = <<order_id>> \o @,
                  !.total_quantity = SaturatingAdd(@, quantity)]

PriceLevel_add_order(level, order_id, quantity) ==
    [level EXCEPT !.orders = Append(@, order_id),
                  !.total_quantity = SaturatingAdd(@, quantity)]

\* mutant: the aggregate is left as it was
PriceLevel_remove_order_noop(level, quantity) == level

PriceLevel_remove_order(level, quantity) ==
    [level EXCEPT !.total_quantity = SaturatingSub(@, quantity)]

is_empty(level) == level.total_quantity = 0 \/ level.orders = << >>

\* ------------------------------------------------------------ depth cache
CachedDepth_new ==
    [bids |-> [i \in 1..CACHE_LIMIT |-> <<0, 0>>],
     asks |-> [i \in 1..CACHE_LIMIT |-> <<0, 0>>],
     is_latest |-> FALSE]

\* items: the (price, quantity) pairs in iteration order
collect_to_fixed_array(items) ==
    [i \in 1..CACHE_LIMIT |-> IF i <= Len(items) THEN items[i] ELSE <<0, 0>>]

LevelItems(levels, keys) == [i \in 1..Len(keys) |-> <<keys[i], levels[keys[i]].total_quantity>>]

update_depth_cache(ob) ==
    IF ob.depth_cache.is_latest THEN ob
    ELSE [ob EXCEPT !.depth_cache =
            [bids |-> collect_to_fixed_array(LevelItems(ob.bids, Descending(DOMAIN ob.bids))),
             asks |-> collect_to_fixed_array(LevelItems(ob.asks, Ascending(DOMAIN ob.asks))),
             is_latest |-> TRUE]]

\* the two slices get_depth copies out of the cache
depth_slices(ob, limit) ==
    [orderbook |-> ob,
     depth |-> [bids |-> SubSeq(ob.depth_cache.bids, 1, Min(Len(ob.depth_cache.bids), limit)),
                asks |-> SubSeq(ob.depth_cache.asks, 1, Min(Len(ob.depth_cache.asks), limit))]]

\* mutant: the slices are copied before the refresh
get_depth_slices_before_refresh(ob, limit) ==
    [orderbook |-> IF ~ob.depth_cache.is_latest THEN update_depth_cache(ob) ELSE ob,
     depth |-> depth_slices(ob, limit).depth]

\* get_depth refreshes the cache when it is stale and returns the snapshot:
\* [orderbook, depth]
get_depth(ob, limit) ==
    depth_slices(IF ~ob.depth_cache.is_latest THEN update_depth_cache(ob) ELSE ob, limit)

\* --------------------------------------------------------------- OrderBook
OrderBook_new ==
    [asks |-> EmptyMap, bids |-> EmptyMap, orders |-> EmptyMap,
     depth_cache |-> CachedDepth_new, next_trade_id |-> 1]

\* the side book of a side: match side { Buy => bids, Sell => asks }
SideOf(ob, side) == IF side = "Buy" THEN ob.bids ELSE ob.asks

SetSide(ob, side, levels) ==
    IF side = "Buy" THEN [ob EXCEPT !.bids = levels] ELSE [ob EXCEPT !.asks = levels]

\* add_order's level: the existing one, or a new one
level_or_new(levels, price) ==
    IF price \in DOMAIN levels THEN levels[price] ELSE PriceLevel_new(price)

\* mutant: an id already in the table is refused
OrderBook_add_order_unique_ids(ob, order) ==
    IF validate_order(order) # "" THEN [err |-> validate_order(order), orderbook |-> ob]
    ELSE IF order.order_id \in DOMAIN ob.orders
    THEN [err |-> "Order id already in the book", orderbook |-> ob]
    ELSE [err |-> "",
          orderbook |->
            [SetSide([ob EXCEPT !.orders = MapInsert(@, order.order_id, order)],
                     order.side,
                     MapInsert(SideOf(ob, order.side), order.price,
                               PriceLevel_add_order(
                                   level_or_new(SideOf(ob, order.side), order.price),
                                   order.order_id, order.remaining_quantity)))
             EXCEPT !.depth_cache.is_latest = FALSE]]

\* add_order: [err, orderbook]
OrderBook_add_order(ob, order) ==
    IF validate_order(order) # "" THEN [err |-> validate_order(order), orderbook |-> ob]
    ELSE [err |-> "",
          orderbook |->
            [SetSide([ob EXCEPT !.orders = MapInsert(@, order.order_id, order)],
                     order.side,
                     MapInsert(SideOf(ob, order.side), order.price,
                               PriceLevel_add_order(
                                   level_or_new(SideOf(ob, order.side), order.price),
                                   order.order_id, order.remaining_quantity)))
             EXCEPT !.depth_cache.is_latest = FALSE]]

\* remove_order's level handling: the level is dropped when it is empty
drop_if_empty(levels, price, level) ==
    IF is_empty(level) THEN MapRemove(levels, price) ELSE MapInsert(levels, price, level)

\* mutant: the initial quantity is subtracted from the aggregate
remove_from_level_initial(levels, order) ==
    IF order.price \in DOMAIN levels
    THEN drop_if_empty(levels, order.price,
                       PriceLevel_remove_order(levels[order.price], order.quantity))
    ELSE levels

remove_from_level(levels, order) ==
    IF order.price \in DOMAIN levels
    THEN drop_if_empty(levels, order.price,
                       PriceLevel_remove_order(levels[order.price], order.remaining_quantity))
    ELSE levels

\* remove_order once the order was found in the table
removed(ob, order) ==
    [found |-> TRUE, order |-> order,
     orderbook |->
        [SetSide([ob EXCEPT !.orders = MapRemove(@, order.order_id)],
                 order.side,
                 remove_from_level(SideOf(ob, order.side), order))
         EXCEPT !.depth_cache.is_latest = FALSE]]

\* mutant: a miss invalidates the depth cache
OrderBook_remove_order_miss_invalidates(ob, order_id) ==
    IF order_id \notin DOMAIN ob.orders
    THEN [found |-> FALSE, order |-> << >>,
          orderbook |-> [ob EXCEPT !.depth_cache.is_latest = FALSE]]
    ELSE removed(ob, ob.orders[order_id])

\* remove_order: [found, order, orderbook]
OrderBook_remove_order(ob, order_id) ==
    IF order_id \notin DOMAIN ob.orders
    THEN [found |-> FALSE, order |-> << >>, orderbook |-> ob]
    ELSE removed(ob, ob.orders[order_id])

\* ---------------------------------------------------------------- matching
\* The loop state st of match_limit_order:
\*   [orders, levels, taker, fills, trades, next_trade_id, book_changed,
\*    prices_to_remove, err]
\* levels is the opposite side book; err is "" or the message of the error the
\* function returned with.
\* mutant: the Fill reports the remaining quantity from before the fill
FillRec_remaining_before(entry, price, fill_quantity) ==
    [type |-> "Fill", order_id |-> entry.order_id, user_id |-> entry.user_id,
     side |-> entry.side, filled_price |-> price, filled_quantity |-> fill_quantity,
     remaining_quantity |-> entry.remaining_quantity + fill_quantity]

FillRec(entry, price, fill_quantity) ==
    [type |-> "Fill", order_id |-> entry.order_id, user_id |-> entry.user_id,
     side |-> entry.side, filled_price |-> price, filled_quantity |-> fill_quantity,
     remaining_quantity |-> entry.remaining_quantity]

TradeRec(trade_id, maker, taker, fill_quantity, price) ==
    [type |-> "Trade", trade_id |-> trade_id,
     maker_order_id |-> maker.order_id, maker_user_id |-> maker.user_id,
     taker_order_id |-> taker.order_id, taker_user_id |-> taker.user_id,
     quantity |-> fill_quantity, price |-> price]

\* mutant: the walk starts at the worst price
price_keys_worst_first(levels, is_buy_order, taker_price) ==
    IF is_buy_order
    THEN Descending({p \in DOMAIN levels : p <= taker_price})
    ELSE Ascending({p \in DOMAIN levels : p >= taker_price})

\* mutant: the candidate prices are not bounded by the taker's price
price_keys_no_limit(levels, is_buy_order, taker_price) ==
    IF is_buy_order THEN Ascending(DOMAIN levels) ELSE Descending(DOMAIN levels)

\* the candidate prices of match_limit_order, best first
price_keys(levels, is_buy_order, taker_price) ==
    IF is_buy_order
    THEN Ascending({p \in DOMAIN levels : p <= taker_price})
    ELSE Descending({p \in DOMAIN levels : p >= taker_price})

\* the id the matching loop takes as the next maker of a level
front(level) == Head(level.orders)

\* mutant: the counter is not advanced
advance_trade_id_stuck(next_trade_id) == next_trade_id

\* next_trade_id after a Trade was pushed
advance_trade_id(next_trade_id) == SaturatingAdd(next_trade_id, 1)

\* mutant: only the maker's Fill is recorded
record_match_maker_fill_only(st, price, fill_quantity, maker, taker) ==
    [st EXCEPT
        !.orders[maker.order_id] = maker,
        !.taker = taker,
        !.levels[price] = PriceLevel_remove_order(@, fill_quantity),
        !.fills = @ \o <<FillRec(maker, price, fill_quantity)>>,
        !.trades = Append(@, TradeRec(st.next_trade_id, maker, taker, fill_quantity, price)),
        !.next_trade_id = advance_trade_id(@),
        !.book_changed = TRUE]

\* both orders are filled: the level aggregate, the two Fills, the Trade and
\* the trade id follow (maker and taker are the entries after their fill)
record_match(st, price, fill_quantity, maker, taker) ==
    [st EXCEPT
        !.orders[maker.order_id] = maker,
        !.taker = taker,
        !.levels[price] = PriceLevel_remove_order(@, fill_quantity),
        !.fills = @ \o <<FillRec(maker, price, fill_quantity),
                         FillRec(taker, price, fill_quantity)>>,
        !.trades = Append(@, TradeRec(st.next_trade_id, maker, taker, fill_quantity, price)),
        !.next_trade_id = advance_trade_id(@),
        !.book_changed = TRUE]

\* mutant: a level the pop left empty is not marked for removal
mark_if_empty_never(st, price) == st

\* the level is marked for removal when the pop left it empty
mark_if_empty(st, price) ==
    IF is_empty(st.levels[price])
    THEN [st EXCEPT !.prices_to_remove = @ \cup {price}]
    ELSE st

\* mutant: a filled maker leaves the FIFO but stays in the table
pop_filled_maker_keeps_entry(st, price, maker_order_id) ==
    IF st.orders[maker_order_id].remaining_quantity = 0
    THEN mark_if_empty([st EXCEPT !.levels[price].orders = Tail(@)], price)
    ELSE st

\* a maker whose remaining reached 0 leaves the FIFO and the table
pop_filled_maker(st, price, maker_order_id) ==
    IF st.orders[maker_order_id].remaining_quantity = 0
    THEN mark_if_empty([st EXCEPT !.levels[price].orders = Tail(@),
                                  !.orders = MapRemove(@, maker_order_id)],
                       price)
    ELSE st

\* maker_order.fill(..)?; taker_order.fill(..)?; and the rest of the iteration
\* (mf, tf: the results of the two fill calls)
apply_fills(st, price, maker_order_id, fill_quantity, mf, tf) ==
    IF mf.err # "" THEN [st EXCEPT !.err = mf.err]
    ELSE IF tf.err # ""
    THEN [st EXCEPT !.orders[maker_order_id] = mf.entry, !.err = tf.err]
    ELSE pop_filled_maker(record_match(st, price, fill_quantity, mf.entry, tf.entry),
                          price, maker_order_id)

fill_both(st, price, maker_order_id, fill_quantity) ==
    apply_fills(st, price, maker_order_id, fill_quantity,
                fill(st.orders[maker_order_id], fill_quantity),
                fill(st.taker, fill_quantity))

\* mutant: the fill quantity is the maker's remaining quantity
match_once_maker_quantity(st, price, maker_order_id) ==
    fill_both(st, price, maker_order_id, st.orders[maker_order_id].remaining_quantity)

\* one iteration of the while loop with a live maker at the head
match_once(st, price, maker_order_id) ==
    fill_both(st, price, maker_order_id,
              Min(st.orders[maker_order_id].remaining_quantity,
                  st.taker.remaining_quantity))

RECURSIVE match_level(_, _)

\* the end of an iteration: error return, break, or the next iteration
after_match(st, price) ==
    IF st.err # "" THEN st
    ELSE IF st.taker.remaining_quantity = 0 THEN st
    ELSE match_level(st, price)

\* mutant: a stale id at the head ends the loop over the level
match_level_stale_stops(st, price) ==
    IF ~(st.taker.remaining_quantity > 0 /\ ~is_empty(st.levels[price])) THEN st
    ELSE IF front(st.levels[price]) \notin DOMAIN st.orders
    THEN st
    ELSE after_match(match_once(st, price, front(st.levels[price])), price)

\* the while loop over one level
match_level(st, price) ==
    IF ~(st.taker.remaining_quantity > 0 /\ ~is_empty(st.levels[price])) THEN st
    ELSE IF front(st.levels[price]) \notin DOMAIN st.orders
    THEN match_level([st EXCEPT !.levels[price].orders = Tail(@)], price)
    ELSE after_match(match_once(st, price, front(st.levels[price])), price)

RECURSIVE match_prices(_, _)

\* after the while loop of one price: error return, or the next price
next_price(st, keys) ==
    IF st.err # "" THEN st ELSE match_prices(st, Tail(keys))

\* the for loop over the candidate prices
match_prices(st, keys) ==
    IF keys = << >> THEN st
    ELSE IF st.taker.remaining_quantity = 0 THEN st
    ELSE IF Head(keys) \notin DOMAIN st.levels THEN match_prices(st, Tail(keys))
    ELSE next_price(match_level(st, Head(keys)), keys)

RemoveKeys(m, keys) == [x \in (DOMAIN m) \ keys |-> m[x]]

\* mutant: the levels the walk emptied stay in the side book
remove_emptied_keeps_levels(st) == st

\* the emptied levels are removed after the walk
remove_emptied(st) ==
    IF st.err # "" THEN st
    ELSE [st EXCEPT !.levels = RemoveKeys(@, st.prices_to_remove)]

\* the loop state at the start of the walk
walk_start(ob, taker) ==
    [orders |-> ob.orders, levels |-> SideOf(ob, IF taker.side = "Buy" THEN "Sell" ELSE "Buy"),
     taker |-> taker, fills |-> << >>, trades |-> << >>,
     next_trade_id |-> ob.next_trade_id, book_changed |-> FALSE,
     prices_to_remove |-> {}, err |-> ""]

\* the walk over the candidate prices, up to the removal of the emptied levels
walk(ob, taker, keys) == remove_emptied(match_prices(walk_start(ob, taker), keys))

\* the book with the loop state written back
WriteBack(ob, st) ==
    SetSide([ob EXCEPT !.orders = st.orders, !.next_trade_id = st.next_trade_id],
            IF st.taker.side = "Buy" THEN "Sell" ELSE "Buy", st.levels)

\* MatchResult and the final taker: [err, orderbook, fills, trades,
\* book_update (empty or one Depth), taker, no_liquidity]
MatchFail(ob, taker, err) ==
    [err |-> err, orderbook |-> ob, fills |-> << >>, trades |-> << >>,
     book_update |-> << >>, taker |-> taker, no_liquidity |-> FALSE]

\* d: what get_depth returned
with_book_update(d, st, no_liquidity) ==
    [err |-> "", orderbook |-> d.orderbook, fills |-> st.fills, trades |-> st.trades,
     book_update |-> <<d.depth>>, taker |-> st.taker, no_liquidity |-> no_liquidity]

\* mutant: the flag of the depth cache is left as the walk found it
Finish_keeps_flag(ob, st, book_changed, no_liquidity) ==
    IF book_changed
    THEN with_book_update(get_depth(ob, DEPTH_LIMIT), st, no_liquidity)
    ELSE [err |-> "", orderbook |-> ob, fills |-> st.fills, trades |-> st.trades,
          book_update |-> << >>, taker |-> st.taker, no_liquidity |-> no_liquidity]

\* the tail of match_limit_order: depth cache flag and the optional book update
Finish(ob, st, book_changed, no_liquidity) ==
    IF book_changed
    THEN with_book_update(get_depth([ob EXCEPT !.depth_cache.is_latest = FALSE], DEPTH_LIMIT),
                          st, no_liquidity)
    ELSE [err |-> "", orderbook |-> ob, fills |-> st.fills, trades |-> st.trades,
          book_update |-> << >>, taker |-> st.taker, no_liquidity |-> no_liquidity]

\* mutant: the taker rests with its initial quantity
resting_initial(taker_order) ==
    [taker_order EXCEPT !.remaining_quantity = taker_order.quantity]

\* the entry match_limit_order hands to add_order: taker_order.clone()
resting(taker_order) == taker_order

\* mutant: the resting insert does not count as a change of the book
rested_keeps_flag(a, st) ==
    IF a.err # "" THEN MatchFail(a.orderbook, st.taker, a.err)
    ELSE Finish(a.orderbook, st, st.book_changed, FALSE)

\* a: what add_order returned for the resting taker
rested(a, st) ==
    IF a.err # "" THEN MatchFail(a.orderbook, st.taker, a.err)
    ELSE Finish(a.orderbook, st, TRUE, FALSE)

\* mutant: the taker is inserted whatever its remaining quantity
rest_or_finish_always_rests(ob, st) ==
    IF st.err # "" THEN MatchFail(ob, st.taker, st.err)
    ELSE rested(OrderBook_add_order(ob, resting(st.taker)), st)

\* after the walk: the error return, the resting insert, the result
rest_or_finish(ob, st) ==
    IF st.err # "" THEN MatchFail(ob, st.taker, st.err)
    ELSE IF st.taker.remaining_quantity > 0
    THEN rested(OrderBook_add_order(ob, resting(st.taker)), st)
    ELSE Finish(ob, st, st.book_changed, FALSE)

after_walk(ob, st) == rest_or_finish(WriteBack(ob, st), st)

match_limit_order(ob, taker_order) ==
    IF validate_order(taker_order) # ""
    THEN MatchFail(ob, taker_order, validate_order(taker_order))
    ELSE after_walk(ob, walk(ob, taker_order,
                             price_keys(SideOf(ob, IF taker_order.side = "Buy"
                                                   THEN "Sell" ELSE "Buy"),
                                        taker_order.side = "Buy", taker_order.price)))

\* The body of match_market_order after its validation is not in the source;
\* it follows the market matching algorithm of the specification: the limit
\* walk over the whole opposite side, the taker never rests, and unfilled
\* quantity is reported as missing liquidity.
market_finish(ob, st) ==
    IF st.err # "" THEN MatchFail(ob, st.taker, st.err)
    ELSE Finish(ob, st, st.book_changed, st.taker.remaining_quantity > 0)

market_after_walk(ob, st) == market_finish(WriteBack(ob, st), st)

market_walk(ob, taker_order) ==
    market_after_walk(ob, walk(ob, taker_order,
                               IF taker_order.side = "Buy"
                               THEN Ascending(DOMAIN ob.asks)
                               ELSE Descending(DOMAIN ob.bids)))

\* mutant: a market order is matched as a limit order at its price
match_market_order_as_limit(ob, order) == match_limit_order(ob, order)

match_market_order(ob, order) ==
    IF validate_order(order) # ""
    THEN MatchFail(ob, order, validate_order(order))
    ELSE market_walk(ob, order)

\* ------------------------------------------------------------------ engine
AckEvent(order_id, user_id) ==
    [type |-> "OrderAck", order_id |-> order_id, user_id |-> user_id]

RejectEvent(order_id, user_id, reason, message) ==
    [type |-> "OrderReject", order_id |-> order_id, user_id |-> user_id,
     reason |-> reason, message |-> message]

CancelledEvent(order) ==
    [type |-> "OrderCancelled", order_id |-> order.order_id, user_id |-> order.user_id,
     reason |-> "UserRequested"]

\* Depth::into_protocol
BookUpdateEvent(depth) ==
    [type |-> "BookUpdate",
     bids |-> [i \in 1..Len(depth.bids) |-> [price |-> depth.bids[i][1], quantity |-> depth.bids[i][2]]],
     asks |-> [i \in 1..Len(depth.asks) |-> [price |-> depth.asks[i][1], quantity |-> depth.asks[i][2]]]]

AckResponse(order_id, user_id) ==
    [kind |-> "Ack", order_id |-> order_id, user_id |-> user_id]

\* OrderResponse::Ack of a CancelOrder: the fields of the command, its symbol included
CancelAckResponse(cancel_order) ==
    [kind |-> "Ack", order_id |-> cancel_order.order_id,
     user_id |-> cancel_order.user_id, symbol |-> cancel_order.symbol]

RejectResponse(order_id, reason, message) ==
    [kind |-> "Reject", order_id |-> order_id, reason |-> reason, message |-> message]

\* reply_tx.send(response): the response handed to the channel and whether
\* the requester was still there to take it
Sent(response, reply_open) == [response |-> response, delivered |-> reply_open]

\* OrderBookError::InvalidOrder's Display
InvalidOrderDisplay(msg) == <<"Invalid Order: ", msg>>

\* OrderBookError::OrderNotFound's Display
OrderNotFoundDisplay(order_id) == <<"Order not found: ", order_id>>

\* mutant: the trades are sent before the fills
result_events_trades_first(result) ==
    result.trades
    \o result.fills
    \o [i \in 1..Len(result.book_update) |-> BookUpdateEvent(result.book_update[i])]

\* the events handle_place_order sends for a MatchResult, in order
result_events(result) ==
    result.fills
    \o result.trades
    \o [i \in 1..Len(result.book_update) |-> BookUpdateEvent(result.book_update[i])]

\* The terminal Reject of a market order that found too little liquidity is
\* not in the source; it follows the specification. Its message is put as the
\* Display of an InvalidOrder error, like the Reject the engine sends for an
\* error of the matcher.
liquidity_reject(order, result) ==
    IF result.no_liquidity
    THEN <<RejectEvent(order.order_id, order.user_id, "InvalidOrder",
                       InvalidOrderDisplay("Insufficient liquidity"))>>
    ELSE << >>

\* mutant: the quantity is not checked
invalid_quantity_unchecked(order) == FALSE

\* mutant: a price of 0 is let through
missing_limit_price_absent_only(order) ==
    order.order_type = "Limit" /\ order.price = NoPrice

\* the two validation guards of handle_place_order
invalid_quantity(order) == order.quantity <= 0

missing_limit_price(order) == order.order_type = "Limit" /\ UnwrapOr0(order.price) = 0

\* the OrderEntry handle_place_order builds from the command
order_entry(order) ==
    OrderEntry_new(order.order_id, order.user_id, order.side,
                   UnwrapOr0(order.price), order.quantity)

\* mutant: the Ack is sent after the events of the match
matched_ack_last(order, result) ==
    [orderbook |-> result.orderbook,
     reply |-> Sent(AckResponse(order.order_id, order.user_id), TRUE),
     out |-> IF result.err # ""
             THEN <<RejectEvent(order.order_id, order.user_id, "InvalidOrder",
                                InvalidOrderDisplay(result.err)),
                    AckEvent(order.order_id, order.user_id)>>
             ELSE result_events(result) \o liquidity_reject(order, result)
                  \o <<AckEvent(order.order_id, order.user_id)>>]

\* the Ack and what follows it for the result of the matching call
matched(order, result) ==
    [orderbook |-> result.orderbook,
     reply |-> Sent(AckResponse(order.order_id, order.user_id), TRUE),
     out |-> IF result.err # ""
             THEN <<AckEvent(order.order_id, order.user_id),
                    RejectEvent(order.order_id, order.user_id, "InvalidOrder",
                                InvalidOrderDisplay(result.err))>>
             ELSE <<AckEvent(order.order_id, order.user_id)>>
                  \o result_events(result) \o liquidity_reject(order, result)]

\* mutant: a failed reply does not stop a valid order
handle_place_order_ignores_closed_reply(ob, order, reply_open) ==
    IF invalid_quantity(order)
    THEN [orderbook |-> ob,
          reply |-> Sent(RejectResponse(order.order_id, "InvalidQuantity",
                                        "Quantity must be greater than 0"), reply_open),
          out |-> <<RejectEvent(order.order_id, order.user_id, "InvalidQuantity",
                                "Quantity must be greater than 0")>>]
    ELSE IF missing_limit_price(order)
    THEN [orderbook |-> ob,
          reply |-> Sent(RejectResponse(order.order_id, "InvalidOrder",
                                        "Price is required for limit orders"), reply_open),
          out |-> <<RejectEvent(order.order_id, order.user_id, "InvalidOrder",
                                "Price is required for limit orders")>>]
    ELSE matched(order, IF order.order_type = "Market"
                        THEN match_market_order(ob, order_entry(order))
                        ELSE match_limit_order(ob, order_entry(order)))

\* handle_place_order: [orderbook, out, reply]
handle_place_order(ob, order, reply_open) ==
    IF invalid_quantity(order)
    THEN [orderbook |-> ob,
          reply |-> Sent(RejectResponse(order.order_id, "InvalidQuantity",
                                        "Quantity must be greater than 0"), reply_open),
          out |-> <<RejectEvent(order.order_id, order.user_id, "InvalidQuantity",
                                "Quantity must be greater than 0")>>]
    ELSE IF missing_limit_price(order)
    THEN [orderbook |-> ob,
          reply |-> Sent(RejectResponse(order.order_id, "InvalidOrder",
                                        "Price is required for limit orders"), reply_open),
          out |-> <<RejectEvent(order.order_id, order.user_id, "InvalidOrder",
                                "Price is required for limit orders")>>]
    ELSE IF ~reply_open
    THEN [orderbook |-> ob,
          reply |-> Sent(AckResponse(order.order_id, order.user_id), FALSE),
          out |-> << >>]
    ELSE matched(order, IF order.order_type = "Market"
                        THEN match_market_order(ob, order_entry(order))
                        ELSE match_limit_order(ob, order_entry(order)))

\* the order was removed: OrderCancelled and the BookUpdate of get_depth (d)
cancelled(cancel_order, order, d) ==
    [orderbook |-> d.orderbook,
     reply |-> Sent(CancelAckResponse(cancel_order), TRUE),
     out |-> <<CancelledEvent(order), BookUpdateEvent(d.depth)>>]

\* mutant: the response is sent after the removal and tells its outcome
after_remove_replies_outcome(cancel_order, r) ==
    IF ~r.found
    THEN [orderbook |-> r.orderbook,
          reply |-> Sent(RejectResponse(cancel_order.order_id, "InvalidOrder",
                                        "Order not found"), TRUE),
          out |-> <<RejectEvent(cancel_order.order_id, cancel_order.user_id,
                                "InvalidOrder",
                                OrderNotFoundDisplay(cancel_order.order_id))>>]
    ELSE cancelled(cancel_order, r.order, get_depth(r.orderbook, DEPTH_LIMIT))

\* r: what remove_order returned
after_remove(cancel_order, r) ==
    IF ~r.found
    THEN [orderbook |-> r.orderbook,
          reply |-> Sent(CancelAckResponse(cancel_order), TRUE),
          out |-> <<RejectEvent(cancel_order.order_id, cancel_order.user_id,
                                "InvalidOrder",
                                OrderNotFoundDisplay(cancel_order.order_id))>>]
    ELSE cancelled(cancel_order, r.order, get_depth(r.orderbook, DEPTH_LIMIT))

\* handle_cancel_order: [orderbook, out, reply]
handle_cancel_order(ob, cancel_order, reply_open) ==
    IF ~reply_open
    THEN [orderbook |-> ob,
          reply |-> Sent(CancelAckResponse(cancel_order), FALSE),
          out |-> << >>]
    ELSE after_remove(cancel_order, OrderBook_remove_order(ob, cancel_order.order_id))

\* the trade ids among the events, in order
trade_id_at(trades) == [i \in 1..Len(trades) |-> trades[i].trade_id]

TradeIds(events) == trade_id_at(SelectSeq(events, LAMBDA e : e.type = "Trade"))

\* the ids the events report as filled (a Fill that leaves nothing) or cancelled
TerminalIds(events) ==
    {events[i].order_id : i \in {j \in DOMAIN events :
        \/ events[j].type = "OrderCancelled"
        \/ events[j].type = "Fill" /\ events[j].remaining_quantity = 0}}

\* ----------------------------------------------------------- specification
Init ==
    /\ orderbook = OrderBook_new
    /\ next_order_id = 1
    /\ cmd = [kind |-> "None"]
    /\ out = << >>
    /\ reply = [kind |-> "None"]
    /\ trade_log = << >>
    /\ terminal = {}
    /\ book_before = OrderBook_new
    /\ order_rx = << >>
    /\ senders = Producers
    /\ pc = "loop"
    /\ event_tx = "open"
    /\ stream = << >>
    /\ enqueued = 0
    /\ processed = 0
    /\ walking = [pc |-> "idle"]
    /\ consumed = 0
    /\ gateway = [main |-> "running", broadcaster |-> "loop"]

\* the engine handled command c with outcome h: the book, the events sent on
\* the outbound channel and the response sent on the reply channel
Handled(c, h) ==
    /\ orderbook' = h.orderbook
    /\ out' = h.out
    /\ reply' = h.reply
    /\ cmd' = c
    /\ trade_log' = trade_log \o TradeIds(h.out)
    /\ terminal' = terminal \cup TerminalIds(h.out)
    /\ book_before' = orderbook

PlaceCommand(order, reply_open) ==
    [kind |-> "Place", order |-> order, reply_open |-> reply_open]

CancelCommand(cancel_order, reply_open) ==
    [kind |-> "Cancel", cancel_order |-> cancel_order, reply_open |-> reply_open]

\* the PlaceOrder the admission layer builds: id from its counter
NewOrder(order_id, user_id, side, order_type, quantity, price) ==
    [order_id |-> order_id, user_id |-> user_id, side |-> side,
     order_type |-> order_type, quantity |-> quantity, price |-> price]

\* the engine dequeues a PlaceOrder; its id comes from the admission counter;
\* reply_open: the requester still holds the receiving end of the reply channel
PlaceOrder(reply_open) ==
    /\ next_order_id <= MaxOrders
    /\ \E order \in {NewOrder(next_order_id, user_id, side, order_type, quantity, price) :
                        user_id \in PlaceUsers, side \in Sides, order_type \in OrderTypes,
                        quantity \in Quantities, price \in Prices} :
         Handled(PlaceCommand(order, reply_open),
                 handle_place_order(orderbook, order, reply_open))
    /\ next_order_id' = next_order_id + 1
    /\ UNCHANGED run_vars

\* the engine dequeues a CancelOrder for any id the admission layer may have issued
CancelOrder(reply_open) ==
    /\ \E cancel_order \in [order_id : 1..MaxOrders, user_id : Users, symbol : Symbols] :
         Handled(CancelCommand(cancel_order, reply_open),
                 handle_cancel_order(orderbook, cancel_order, reply_open))
    /\ UNCHANGED next_order_id
    /\ UNCHANGED run_vars

\* every requester awaits its reply, as the HTTP handlers do
Next == PlaceOrder(TRUE) \/ CancelOrder(TRUE)

Spec == Init /\ [][Next]_vars

\* requesters may also have dropped the receiving end before the dequeue
NextAnyReply ==
    \/ PlaceOrder(TRUE)
    \/ CancelOrder(TRUE)
    \/ PlaceOrder(FALSE)
    \/ CancelOrder(FALSE)

SpecAnyReply == Init /\ [][NextAnyReply]_vars

\* ------------------------------------------------- the run loop of the engine
\* the commands a producer sends: limit orders that rest or cross at one
\* price, a zero quantity, a limit order without a price, a market order, and
\* cancels of ids that may or may not rest
RunOrders(p) ==
    {NewOrder(next_order_id, p, side, "Limit", 1, 1) : side \in Sides}
    \cup {NewOrder(next_order_id, p, "Buy", "Limit", 0, 1),
          NewOrder(next_order_id, p, "Buy", "Limit", 1, NoPrice),
          NewOrder(next_order_id, p, "Sell", "Market", 1, NoPrice)}

RunCommands(p) ==
    {PlaceCommand(order, TRUE) : order \in RunOrders(p)}
    \cup {CancelCommand([order_id |-> order_id, user_id |-> p, symbol |-> BookSymbol], TRUE) :
            order_id \in 1..(MaxCommands - 1)}

\* Sender::send: the message goes to the back of the channel, whose capacity
\* MaxCommands never reaches
channel_send(queue, message) == Append(queue, message)

\* Receiver::recv taking the newest message instead of the oldest
channel_recv_newest(queue) == queue[Len(queue)]

\* Receiver::recv on a channel that holds messages: the oldest one
channel_recv(queue) == Head(queue)

channel_rest(queue) == Tail(queue)

\* recv failing as soon as the channel is empty, with Senders still alive
channel_closed_on_empty(queue, live_senders) == queue = << >>

\* mutant: an outbound channel of capacity 1, whose send waits while it is full
event_tx_blocks_when_full(backlog) == backlog >= 1

\* event_tx.send on the outbound channel, which is unbounded: the send
\* never waits for room, whatever the number of events not yet received
event_tx_blocks(backlog) == FALSE

\* mutant: the channel is closed once the Sender main created is dropped
channel_closed_by_owner(queue, live_senders) ==
    queue = << >> /\ "order_tx" \notin live_senders

\* recv fails only when the channel is empty and every Sender is gone
channel_closed(queue, live_senders) == queue = << >> /\ live_senders = {}

\* the match arm of run for a received command
handle(ob, c) ==
    IF c.kind = "Place"
    THEN handle_place_order(ob, c.order, c.reply_open)
    ELSE handle_cancel_order(ob, c.cancel_order, c.reply_open)

\* a rejected command ending the loop
after_handler_fatal_reject(h) ==
    IF \E i \in DOMAIN h.out : h.out[i].type = "OrderReject" THEN "shutdown" ELSE "loop"

\* where run is after a handler returned: the loop goes on, whatever it sent
after_handler(h) == "loop"

\* producer p sends a command; a PlaceOrder takes its id from the counter
Send(p) ==
    /\ p \in senders
    /\ enqueued < MaxCommands
    /\ \E c \in RunCommands(p) :
          /\ order_rx' = channel_send(order_rx, [seq |-> enqueued + 1, command |-> c])
          /\ next_order_id' = IF c.kind = "Place" THEN next_order_id + 1 ELSE next_order_id
    /\ enqueued' = enqueued + 1
    /\ UNCHANGED <<orderbook, cmd, out, reply, trade_log, terminal, book_before,
                   senders, pc, event_tx, stream, processed, walking, consumed, gateway>>

\* producer p drops its Sender
DropSender(p) ==
    /\ p \in senders
    /\ senders' = senders \ {p}
    /\ UNCHANGED <<orderbook, next_order_id, cmd, out, reply, trade_log, terminal, book_before,
                   order_rx, pc, event_tx, stream, enqueued, processed, walking, consumed, gateway>>

\* the engine handled message m with outcome h
Dequeued(m, h) ==
    /\ Handled(m.command, h)
    /\ stream' = stream \o [i \in 1..Len(h.out) |-> m.seq]
    /\ pc' = after_handler(h)

\* one turn of the loop: recv returns a command and its handler runs
Recv ==
    /\ pc = "loop"
    /\ event_tx = "open"
    /\ order_rx # << >>
    /\ ~event_tx_blocks(Len(stream) - consumed)
    /\ Dequeued(channel_recv(order_rx), handle(orderbook, channel_recv(order_rx).command))
    /\ order_rx' = channel_rest(order_rx)
    /\ processed' = processed + 1
    /\ UNCHANGED <<next_order_id, senders, event_tx, enqueued, walking, consumed, gateway>>

\* recv returns the closed signal: break
RecvClosed ==
    /\ pc = "loop"
    /\ channel_closed(order_rx, senders)
    /\ pc' = "shutdown"
    /\ UNCHANGED <<orderbook, next_order_id, cmd, out, reply, trade_log, terminal, book_before,
                   order_rx, senders, event_tx, stream, enqueued, processed, walking, consumed, gateway>>

\* run returns and event_tx, which it owns, is dropped
Return ==
    /\ pc = "shutdown"
    /\ pc' = "returned"
    /\ event_tx' = "dropped"
    /\ UNCHANGED <<orderbook, next_order_id, cmd, out, reply, trade_log, terminal, book_before,
                   order_rx, senders, stream, enqueued, processed, walking, consumed, gateway>>

NextRun ==
    \/ \E p \in Producers : Send(p)
    \/ \E p \in Producers : DropSender(p)
    \/ Recv
    \/ RecvClosed
    \/ Return

\* the guard of Recv; the handlers are total, so Recv is enabled exactly here
RecvEnabled ==
    /\ pc = "loop"
    /\ event_tx = "open"
    /\ order_rx # << >>
    /\ ~event_tx_blocks(Len(stream) - consumed)

\* weak fairness of Recv, WF_vars(Recv) spelled out with Recv's guard for
\* ENABLED and with the one step that counts a handled command for <<Recv>>_vars:
\* recv returns while a command waits, and the handler it calls returns
RecvFair == []<>(~RecvEnabled) \/ []<><<processed' = processed + 1>>_vars

\* the engine thread keeps running: a handler returns and recv is called
\* again, the closed signal is seen, and run returns after its break
SpecRun ==
    Init /\ [][NextRun]_vars /\ RecvFair /\ WF_vars(RecvClosed) /\ WF_vars(Return)

\* ------------------------------------------------- the consumer of the events
\* the thread at the other end of the outbound channel receives one event; it
\* may run at any pace, or not at all
Consume ==
    /\ consumed < Len(stream)
    /\ consumed' = consumed + 1
    /\ UNCHANGED <<orderbook, next_order_id, cmd, out, reply, trade_log, terminal,
                   book_before, order_rx, senders, pc, event_tx, stream, enqueued,
                   processed, walking, gateway>>

NextConsumer ==
    \/ NextRun
    \/ Consume

\* the engine thread keeps running; nothing is assumed of the consumer
SpecConsumer ==
    Init /\ [][NextConsumer]_vars /\ RecvFair /\ WF_vars(RecvClosed) /\ WF_vars(Return)

\* ------------------------------------- match_limit_order, one iteration a step
\* The loops of match_limit_order run as steps: walking holds the position
\* ("for": at the head of the for loop over the prices, "while": at the head
\* of the while loop over the level of the first price left, "end": after
\* the loops), the order, the loop state, the prices still to visit and the
\* number of times the body of the while loop has run.
WalkOrders ==
    {NewOrder(next_order_id, user_id, side, "Limit", quantity, price) :
        user_id \in PlaceUsers, side \in Sides,
        quantity \in 1..MaxQty, price \in 1..MaxPrice}

\* mutant: the stale front id is not popped before the continue
pop_stale_keeps_head(st, price) == st

\* the front id is not in the order table: level.orders.pop_front(); continue
pop_stale(st, price) == [st EXCEPT !.levels[price].orders = Tail(@)]

\* the condition of the while loop
while_condition(st, price) ==
    st.taker.remaining_quantity > 0 /\ ~is_empty(st.levels[price])

\* the body of the while loop, once
iteration(st, price) ==
    IF front(st.levels[price]) \notin DOMAIN st.orders
    THEN pop_stale(st, price)
    ELSE match_once(st, price, front(st.levels[price]))

\* where the loops are after one run of the body (st: the state it left):
\* the error return, the break, or the head of the while loop again
after_iteration(w, st) ==
    IF st.err # "" THEN [w EXCEPT !.pc = "end", !.st = st]
    ELSE IF st.taker.remaining_quantity = 0
    THEN [w EXCEPT !.pc = "for", !.st = st, !.keys = Tail(@)]
    ELSE [w EXCEPT !.st = st]

\* the engine dequeued a valid Limit PlaceOrder with a requester awaiting the
\* reply and reached the loops of match_limit_order
WalkBegin ==
    /\ walking.pc = "idle"
    /\ next_order_id <= MaxOrders
    /\ \E order \in WalkOrders :
          walking' = [pc |-> "for", order |-> order, iterations |-> 0,
                      st |-> walk_start(orderbook, order_entry(order)),
                      keys |-> price_keys(SideOf(orderbook, IF order.side = "Buy"
                                                            THEN "Sell" ELSE "Buy"),
                                          order.side = "Buy", order.price)]
    /\ next_order_id' = next_order_id + 1
    /\ UNCHANGED <<orderbook, cmd, out, reply, trade_log, terminal, book_before,
                   order_rx, senders, pc, event_tx, stream, enqueued, processed, consumed, gateway>>

\* the head of the for loop: its end, its break, its continue, or the level
WalkFor ==
    /\ walking.pc = "for"
    /\ walking' =
          IF walking.keys = << >> \/ walking.st.taker.remaining_quantity = 0
          THEN [walking EXCEPT !.pc = "end"]
          ELSE IF Head(walking.keys) \notin DOMAIN walking.st.levels
          THEN [walking EXCEPT !.keys = Tail(@)]
          ELSE [walking EXCEPT !.pc = "while"]
    /\ UNCHANGED <<orderbook, next_order_id, cmd, out, reply, trade_log, terminal,
                   book_before, order_rx, senders, pc, event_tx, stream, enqueued,
                   processed, consumed, gateway>>

\* the condition of the while loop is false: on to the next price
WalkExit ==
    /\ walking.pc = "while"
    /\ ~while_condition(walking.st, Head(walking.keys))
    /\ walking' = [walking EXCEPT !.pc = "for", !.keys = Tail(@)]
    /\ UNCHANGED <<orderbook, next_order_id, cmd, out, reply, trade_log, terminal,
                   book_before, order_rx, senders, pc, event_tx, stream, enqueued,
                   processed, consumed, gateway>>

\* the condition of the while loop is true: its body runs once
WalkIterate ==
    /\ walking.pc = "while"
    /\ while_condition(walking.st, Head(walking.keys))
    /\ walking' = after_iteration([walking EXCEPT !.iterations = @ + 1],
                                  iteration(walking.st, Head(walking.keys)))
    /\ UNCHANGED <<orderbook, next_order_id, cmd, out, reply, trade_log, terminal,
                   book_before, order_rx, senders, pc, event_tx, stream, enqueued,
                   processed, consumed, gateway>>

\* after the loops: the emptied levels, the resting insert, the result, the
\* events; the handler returns and the engine is back at the dequeue
WalkEnd ==
    /\ walking.pc = "end"
    /\ Handled(PlaceCommand(walking.order, TRUE),
               matched(walking.order, after_walk(orderbook, remove_emptied(walking.st))))
    /\ walking' = [pc |-> "idle"]
    /\ UNCHANGED <<next_order_id, order_rx, senders, pc, event_tx, stream, enqueued,
                   processed, consumed, gateway>>

NextWalk ==
    \/ walking.pc = "idle" /\ PlaceOrder(TRUE)
    \/ walking.pc = "idle" /\ CancelOrder(TRUE)
    \/ WalkBegin
    \/ WalkFor
    \/ WalkExit
    \/ WalkIterate
    \/ WalkEnd

\* weak fairness of the steps of the loops, spelled out: a step of the loops
\* is enabled exactly while a Place is in them, and every such step changes
\* walking. The engine thread runs the handler it is in.
WalkFair ==
    []<>(walking.pc = "idle") \/ []<><<walking.pc # "idle" /\ walking' # walking>>_vars

SpecWalk == Init /\ [][NextWalk]_vars /\ WalkFair

\* ------------------------------------------------ the gateway and its shutdown
\* main creates the inbound channel and keeps its Sender, order_tx; the HTTP
\* server is built with a clone of it, which its handlers send on. The engine
\* thread runs Engine::run; the broadcaster thread receives the engine's events
\* and forwards each to the market data and persistence channels, whose
\* receivers stay alive until main joins them, after the broadcaster.
SenderClones == {"order_tx", "http_server"}

InitGateway ==
    /\ orderbook = OrderBook_new
    /\ next_order_id = 1
    /\ cmd = [kind |-> "None"]
    /\ out = << >>
    /\ reply = [kind |-> "None"]
    /\ trade_log = << >>
    /\ terminal = {}
    /\ book_before = OrderBook_new
    /\ order_rx = << >>
    /\ senders = SenderClones
    /\ pc = "loop"
    /\ event_tx = "open"
    /\ stream = << >>
    /\ enqueued = 0
    /\ processed = 0
    /\ walking = [pc |-> "idle"]
    /\ consumed = 0
    /\ gateway = [main |-> "running", broadcaster |-> "loop"]

\* a handler of the HTTP server sends a command on the server's clone
HttpSend ==
    /\ "http_server" \in senders
    /\ enqueued < MaxCommands
    /\ \E user_id \in PlaceUsers : \E c \in RunCommands(user_id) :
          /\ order_rx' = channel_send(order_rx, [seq |-> enqueued + 1, command |-> c])
          /\ next_order_id' = IF c.kind = "Place" THEN next_order_id + 1 ELSE next_order_id
    /\ enqueued' = enqueued + 1
    /\ UNCHANGED <<orderbook, cmd, out, reply, trade_log, terminal, book_before,
                   senders, pc, event_tx, stream, processed, walking, consumed, gateway>>

\* the HTTP server stops and its application state, which holds the clone, is dropped
HttpServerStops ==
    /\ "http_server" \in senders
    /\ senders' = senders \ {"http_server"}
    /\ UNCHANGED <<orderbook, next_order_id, cmd, out, reply, trade_log, terminal, book_before,
                   order_rx, pc, event_tx, stream, enqueued, processed, walking, consumed, gateway>>

\* main leaves its wait loop and drops order_tx; it goes on to join the engine thread
DropOrderTx ==
    /\ gateway.main = "running"
    /\ senders' = senders \ {"order_tx"}
    /\ gateway' = [gateway EXCEPT !.main = "join_engine"]
    /\ UNCHANGED <<orderbook, next_order_id, cmd, out, reply, trade_log, terminal, book_before,
                   order_rx, pc, event_tx, stream, enqueued, processed, walking, consumed>>

\* engine_handle.join() returns: the engine thread has ended
JoinEngine ==
    /\ gateway.main = "join_engine"
    /\ pc = "returned"
    /\ gateway' = [gateway EXCEPT !.main = "join_broadcaster"]
    /\ UNCHANGED <<orderbook, next_order_id, cmd, out, reply, trade_log, terminal, book_before,
                   order_rx, senders, pc, event_tx, stream, enqueued, processed, walking,
                   consumed>>

\* broadcaster_handle.join() returns: the broadcaster thread has ended
JoinBroadcaster ==
    /\ gateway.main = "join_broadcaster"
    /\ gateway.broadcaster = "returned"
    /\ gateway' = [gateway EXCEPT !.main = "join_market_data"]
    /\ UNCHANGED <<orderbook, next_order_id, cmd, out, reply, trade_log, terminal, book_before,
                   order_rx, senders, pc, event_tx, stream, enqueued, processed, walking,
                   consumed>>

\* event_rx.recv() returns Err: no event waits and the engine's Sender, the only one, is dropped
event_rx_closed(backlog, tx) == backlog = 0 /\ tx = "dropped"

\* one turn of the broadcaster's loop: it receives an event and forwards it
Broadcast ==
    /\ gateway.broadcaster = "loop"
    /\ consumed < Len(stream)
    /\ consumed' = consumed + 1
    /\ UNCHANGED <<orderbook, next_order_id, cmd, out, reply, trade_log, terminal,
                   book_before, order_rx, senders, pc, event_tx, stream, enqueued,
                   processed, walking, gateway>>

\* the broadcaster's recv returns Err and its loop ends
BroadcasterEnd ==
    /\ gateway.broadcaster = "loop"
    /\ event_rx_closed(Len(stream) - consumed, event_tx)
    /\ gateway' = [gateway EXCEPT !.broadcaster = "returned"]
    /\ UNCHANGED <<orderbook, next_order_id, cmd, out, reply, trade_log, terminal, book_before,
                   order_rx, senders, pc, event_tx, stream, enqueued, processed, walking,
                   consumed>>

NextGateway ==
    \/ HttpSend
    \/ HttpServerStops
    \/ DropOrderTx
    \/ Recv
    \/ RecvClosed
    \/ Return
    \/ Broadcast
    \/ BroadcasterEnd
    \/ JoinEngine
    \/ JoinBroadcaster

\* the broadcaster thread keeps running: its recv returns when an event waits
\* or the channel is closed, and its two sends return (one channel is
\* unbounded, the other is drained by a receiver that outlives the thread)
SpecGateway ==
    InitGateway /\ [][NextGateway]_vars /\ WF_vars(Broadcast) /\ WF_vars(BroadcasterEnd)

\* ------------------------------------------- a producer that reuses order ids
\* The engine takes the order_id from the command (engine.rs 140-149) and keys
\* the order table by it; nothing in the engine or the book compares it with
\* the ids in use. A producer that does not draw its ids from the admission
\* counter can therefore send a Limit order under the id of a resting order.
\* The engine dequeues such a PlaceOrder.
PlaceOrderDuplicateId ==
    /\ next_order_id <= MaxOrders
    /\ \E order \in {NewOrder(order_id, user_id, side, "Limit", quantity, price) :
                        order_id \in DOMAIN orderbook.orders,
                        user_id \in Users, side \in Sides,
                        quantity \in Quantities, price \in Prices} :
         Handled(PlaceCommand(order, TRUE),
                 handle_place_order(orderbook, order, TRUE))
    /\ next_order_id' = next_order_id + 1
    /\ UNCHANGED run_vars

NextDuplicateIds ==
    \/ PlaceOrder(TRUE)
    \/ CancelOrder(TRUE)
    \/ PlaceOrderDuplicateId

SpecDuplicateIds == Init /\ [][NextDuplicateIds]_vars

\* ------------------------------------------------------------------ claims
AllLevels ==
    {[side |-> "Buy", level |-> orderbook.bids[p]] : p \in DOMAIN orderbook.bids}
    \cup {[side |-> "Sell", level |-> orderbook.asks[p]] : p \in DOMAIN orderbook.asks}

SideBook(side) == IF side = "Buy" THEN orderbook.bids ELSE orderbook.asks

RECURSIVE SumSeq(_)
SumSeq(q) == IF q = << >> THEN 0 ELSE Head(q) + SumSeq(Tail(q))

\* remaining quantities of the ids of a FIFO, looked up in the order table
FifoRemaining(level) ==
    [i \in 1..Len(level.orders) |->
        IF level.orders[i] \in DOMAIN orderbook.orders
        THEN orderbook.orders[level.orders[i]].remaining_quantity
        ELSE 0]

Occurrences(q, x) == Cardinality({i \in DOMAIN q : q[i] = x})

IsStale(order_id) == order_id \notin DOMAIN orderbook.orders

\* C1: after every command, every price level's total_quantity equals the sum
\* of the remaining quantities of the orders its FIFO lists, looked up in the
\* order table.
C1_AggregateIsSum ==
    \A l \in AllLevels : l.level.total_quantity = SumSeq(FifoRemaining(l.level))

\* a level that holds a partially filled order next to a cancelled one
C1_Witness ==
    \E l \in AllLevels :
       /\ \E i \in DOMAIN l.level.orders : IsStale(l.level.orders[i])
       /\ \E i \in DOMAIN l.level.orders :
             /\ ~IsStale(l.level.orders[i])
             /\ orderbook.orders[l.level.orders[i]].remaining_quantity
                  < orderbook.orders[l.level.orders[i]].quantity

\* C2: every id in the FIFO of any level is in the order table with the
\* level's side and price; a cancelled id is no longer in its level's FIFO.
C2_FifoIdsAreLive ==
    \A l \in AllLevels : \A i \in DOMAIN l.level.orders :
       /\ l.level.orders[i] \in DOMAIN orderbook.orders
       /\ orderbook.orders[l.level.orders[i]].side = l.side
       /\ orderbook.orders[l.level.orders[i]].price = l.level.price

\* C3: every order of the table is exactly once in the FIFO of the level at
\* its side and price, and in no other level's FIFO.
C3_TableOrdersInOneFifo ==
    \A order_id \in DOMAIN orderbook.orders :
       LET o == orderbook.orders[order_id]
       IN  /\ o.price \in DOMAIN SideBook(o.side)
           /\ Occurrences(SideBook(o.side)[o.price].orders, order_id) = 1
           /\ \A l \in AllLevels :
                 (l.side # o.side \/ l.level.price # o.price)
                    => Occurrences(l.level.orders, order_id) = 0

\* two orders behind each other at one level and a third one at another level
C3_Witness ==
    /\ Cardinality(DOMAIN orderbook.orders) >= 3
    /\ \E l \in AllLevels : Len(l.level.orders) >= 2
    /\ Cardinality(AllLevels) >= 2

\* ---- the events of the last command
Accepted == cmd.kind = "Place" /\ out # << >> /\ out[1].type = "OrderAck"

Opposite(side) == IF side = "Buy" THEN "Sell" ELSE "Buy"

OutTrades == SelectSeq(out, LAMBDA e : e.type = "Trade")

OutMakerFills ==
    SelectSeq(out, LAMBDA e : e.type = "Fill" /\ e.order_id # cmd.order.order_id)

OutTakerFills ==
    SelectSeq(out, LAMBDA e : e.type = "Fill" /\ e.order_id = cmd.order.order_id)

HoldsLiveOrder(level) ==
    \E i \in DOMAIN level.orders : level.orders[i] \in DOMAIN orderbook.orders

\* price p is better than price q for a taker of the given side
Better(taker_side, p, q) == IF taker_side = "Buy" THEN p < q ELSE p > q

\* C4: every Trade of a Place is made at the best-priced opposite level that
\* holds a live order at that moment: the trade prices of one Place never
\* return to a better price, and no better-priced opposite level than a trade's
\* is left holding a live order.
C4_PricePriority ==
    cmd.kind = "Place" =>
       LET t == OutTrades
           opp == SideBook(Opposite(cmd.order.side))
       IN  /\ \A i \in 1..(Len(t) - 1) : ~Better(cmd.order.side, t[i + 1].price, t[i].price)
           /\ \A i \in 1..Len(t) : \A p \in DOMAIN opp :
                 Better(cmd.order.side, p, t[i].price) => ~HoldsLiveOrder(opp[p])

\* a taker traded at the best price while a worse-priced level stays in the book
C4_Witness ==
    /\ cmd.kind = "Place"
    /\ OutTrades # << >>
    /\ \E p \in DOMAIN SideBook(Opposite(cmd.order.side)) :
          /\ Better(cmd.order.side, OutTrades[1].price, p)
          /\ HoldsLiveOrder(SideBook(Opposite(cmd.order.side))[p])

\* C5: makers at one price and side are filled in the order of their
\* acceptance (ids are issued in acceptance order): within one Place the makers
\* filled at one price come in acceptance order, and no earlier-accepted order
\* of that price and side is still resting when a later one got a Fill.
C5_TimePriority ==
    cmd.kind = "Place" =>
       LET f == OutMakerFills
       IN  /\ \A i, j \in 1..Len(f) :
                 (i < j /\ f[i].filled_price = f[j].filled_price)
                    => f[i].order_id < f[j].order_id
           /\ \A i \in 1..Len(f) : \A order_id \in DOMAIN orderbook.orders :
                 ~ /\ order_id < f[i].order_id
                   /\ orderbook.orders[order_id].side = f[i].side
                   /\ orderbook.orders[order_id].price = f[i].filled_price

\* one taker filled two makers of the same price
C5_Witness ==
    /\ cmd.kind = "Place"
    /\ Len(OutMakerFills) >= 2
    /\ OutMakerFills[1].filled_price = OutMakerFills[2].filled_price

\* what may follow the fills and trades of a Place: at most one BookUpdate,
\* then a Reject for a market order only
TailPattern(rest) ==
    /\ Len(rest) <= 2
    /\ \A i \in 1..Len(rest) : rest[i].type \in {"BookUpdate", "OrderReject"}
    /\ Cardinality({i \in 1..Len(rest) : rest[i].type = "BookUpdate"}) <= 1
    /\ \A i \in 1..Len(rest) :
          rest[i].type = "OrderReject"
             => i = Len(rest) /\ cmd.order.order_type = "Market"
    /\ (cmd.order.order_type = "Market"
        /\ SumSeq([i \in 1..Len(OutTakerFills) |-> OutTakerFills[i].filled_quantity])
             < cmd.order.quantity)
          => (rest # << >> /\ rest[Len(rest)].type = "OrderReject")

C7_TradeIdsContiguous ==
    /\ \A k \in 1..Len(trade_log) : trade_log[k] = k
    /\ orderbook.next_trade_id = Len(trade_log) + 1

\* the second trade of the book's lifetime, made by a later Place than the first
C7_Witness ==
    /\ cmd.kind = "Place"
    /\ Len(OutTrades) = 1
    /\ Len(trade_log) = 2

\* the taker's quantity that is left after its Place: what rests in the book,
\* or what a market order discards
TakerFinalRemaining ==
    IF cmd.order.order_id \in DOMAIN orderbook.orders
    THEN orderbook.orders[cmd.order.order_id].remaining_quantity
    ELSE IF cmd.order.order_type = "Market"
    THEN IF OutTakerFills = << >> THEN cmd.order.quantity
         ELSE OutTakerFills[Len(OutTakerFills)].remaining_quantity
    ELSE 0

\* C8: for an accepted Place the initial quantity is the sum of the taker's
\* filled quantities plus the taker's final remaining quantity.
C8_TakerConservation ==
    Accepted =>
       cmd.order.quantity =
          SumSeq([i \in 1..Len(OutTakerFills) |-> OutTakerFills[i].filled_quantity])
          + TakerFinalRemaining

\* a limit taker that was partially filled and rests with the remainder
C8_Witness ==
    /\ Accepted
    /\ OutTakerFills # << >>
    /\ cmd.order.order_id \in DOMAIN orderbook.orders
    /\ orderbook.orders[cmd.order.order_id].remaining_quantity > 0

\* C9: a PlaceOrder with quantity 0, of any type and price, sends exactly one
\* event, an OrderReject with reason InvalidQuantity, replies with a Reject,
\* and leaves the whole book (table, sides, depth cache, next_trade_id) as it was.
C9_ZeroQuantityRejected ==
    [][(cmd'.kind = "Place" /\ cmd'.order.quantity = 0) =>
          /\ Len(out') = 1
          /\ out'[1].type = "OrderReject"
          /\ out'[1].reason = "InvalidQuantity"
          /\ out'[1].order_id = cmd'.order.order_id
          /\ reply'.response.kind = "Reject"
          /\ reply'.response.reason = "InvalidQuantity"
          /\ orderbook' = orderbook]_vars

\* a market order of quantity 0 with a price, sent to a book with resting orders
C9_Witness ==
    /\ cmd.kind = "Place"
    /\ cmd.order.quantity = 0
    /\ cmd.order.order_type = "Market"
    /\ cmd.order.price > 0
    /\ DOMAIN orderbook.orders # {}

\* C10: a Limit PlaceOrder with quantity > 0 and a price that is absent or 0
\* sends exactly one event, an OrderReject with reason InvalidOrder, replies
\* with a Reject, and leaves the book as it was.
C10_LimitWithoutPriceRejected ==
    [][(/\ cmd'.kind = "Place"
        /\ cmd'.order.order_type = "Limit"
        /\ cmd'.order.quantity > 0
        /\ cmd'.order.price \in {NoPrice, 0}) =>
          /\ Len(out') = 1
          /\ out'[1].type = "OrderReject"
          /\ out'[1].reason = "InvalidOrder"
          /\ out'[1].order_id = cmd'.order.order_id
          /\ reply'.response.kind = "Reject"
          /\ reply'.response.reason = "InvalidOrder"
          /\ orderbook' = orderbook]_vars

\* a limit order with price 0 sent to a book with resting orders
C10_Witness ==
    /\ cmd.kind = "Place"
    /\ cmd.order.order_type = "Limit"
    /\ cmd.order.quantity > 0
    /\ cmd.order.price = 0
    /\ DOMAIN orderbook.orders # {}

\* ---- what the engine's own validation says of the last Place
Validated == ~invalid_quantity(cmd.order) /\ ~missing_limit_price(cmd.order)

\* C11: for every Place, the OrderAck of an accepted order comes before every
\* Fill, Trade and BookUpdate of that Place (it is the first event, it is the
\* only Ack and it carries the order's id); a Place rejected by validation
\* produces the OrderReject and nothing else.
C11_AckFirstRejectAlone ==
    cmd.kind = "Place" =>
       /\ Validated =>
             /\ out # << >>
             /\ out[1].type = "OrderAck"
             /\ out[1].order_id = cmd.order.order_id
             /\ \A i \in 2..Len(out) : out[i].type # "OrderAck"
       /\ (\E i \in DOMAIN out : out[i].type \in {"Fill", "Trade", "BookUpdate"})
             => Validated
       /\ ~Validated =>
             /\ Len(out) = 1
             /\ out[1].type = "OrderReject"
             /\ out[1].order_id = cmd.order.order_id

\* an accepted Place that produced Fills, a Trade and a BookUpdate
C11_Witness ==
    /\ cmd.kind = "Place"
    /\ Validated
    /\ \E i, j, k \in DOMAIN out :
          /\ out[i].type = "Fill"
          /\ out[j].type = "Trade"
          /\ out[k].type = "BookUpdate"

\* C12: a CancelOrder whose order_id is not in the order table produces exactly
\* one event, an OrderReject with reason InvalidOrder carrying the cancel's
\* order_id and user_id (so no OrderCancelled and no BookUpdate), and leaves
\* the order table, both side books and the depth cache with its freshness
\* flag as they were.
C12_CancelMissRejected ==
    [][(/\ cmd'.kind = "Cancel"
        /\ cmd'.cancel_order.order_id \notin DOMAIN orderbook.orders) =>
          /\ Len(out') = 1
          /\ out'[1].type = "OrderReject"
          /\ out'[1].reason = "InvalidOrder"
          /\ out'[1].order_id = cmd'.cancel_order.order_id
          /\ out'[1].user_id = cmd'.cancel_order.user_id
          /\ orderbook'.orders = orderbook.orders
          /\ orderbook'.bids = orderbook.bids
          /\ orderbook'.asks = orderbook.asks
          /\ orderbook'.depth_cache = orderbook.depth_cache]_vars

\* a second cancel of an order whose id is still listed in a FIFO, sent while
\* the depth cache is fresh
C12_Witness ==
    /\ cmd.kind = "Cancel"
    /\ Len(out) = 1
    /\ out[1].type = "OrderReject"
    /\ orderbook.depth_cache.is_latest
    /\ \E l \in AllLevels : \E i \in DOMAIN l.level.orders :
          l.level.orders[i] = cmd.cancel_order.order_id

\* the (price, quantity) entries a BookUpdate lists for a side
ShownEntries(event, side) == IF side = "Buy" THEN event.bids ELSE event.asks

\* C13: a CancelOrder of an order that is in the order table sends
\* OrderCancelled with reason UserRequested and then exactly one BookUpdate;
\* afterwards the order is not in the table, its level's aggregate is lower by
\* the order's current remaining quantity, the level is gone if that left it
\* empty, no other level changed, and the BookUpdate shows the level with the
\* lowered aggregate or not at all.
C13_CancelRemovesRemaining ==
    [][(/\ cmd'.kind = "Cancel"
        /\ cmd'.cancel_order.order_id \in DOMAIN orderbook.orders) =>
          LET o == orderbook.orders[cmd'.cancel_order.order_id]
              before == SideOf(orderbook, o.side)
              after == SideOf(orderbook', o.side)
              left == before[o.price].total_quantity - o.remaining_quantity
              shown == ShownEntries(out'[2], o.side)
          IN  /\ Len(out') = 2
              /\ out'[1].type = "OrderCancelled"
              /\ out'[1].reason = "UserRequested"
              /\ out'[1].order_id = o.order_id
              /\ out'[1].user_id = o.user_id
              /\ out'[2].type = "BookUpdate"
              /\ o.order_id \notin DOMAIN orderbook'.orders
              /\ DOMAIN orderbook'.orders = DOMAIN orderbook.orders \ {o.order_id}
              /\ left >= 0
              /\ IF left = 0
                 THEN /\ o.price \notin DOMAIN after
                      /\ \A i \in DOMAIN shown : shown[i].price # o.price
                 ELSE /\ o.price \in DOMAIN after
                      /\ after[o.price].total_quantity = left
                      /\ \A i \in DOMAIN shown :
                            shown[i].price = o.price => shown[i].quantity = left
                      /\ Cardinality(DOMAIN after) <= DEPTH_LIMIT =>
                            Cardinality({i \in DOMAIN shown : shown[i].price = o.price}) = 1
              /\ \A p \in (DOMAIN before) \ {o.price} :
                    p \in DOMAIN after /\ after[p] = before[p]
              /\ DOMAIN after \subseteq DOMAIN before
              /\ SideOf(orderbook', Opposite(o.side)) = SideOf(orderbook, Opposite(o.side))]_vars

\* the cancel of an order that had traded, at a level that keeps a live order
C13_Witness ==
    /\ cmd.kind = "Cancel"
    /\ Len(out) = 2
    /\ out[1].type = "OrderCancelled"
    /\ trade_log # << >>
    /\ \E l \in AllLevels :
          /\ \E i \in DOMAIN l.level.orders : l.level.orders[i] = cmd.cancel_order.order_id
          /\ HoldsLiveOrder(l.level)

\* the order ids an event refers to as filled, traded or cancelled
ReferencedIds(event) ==
    IF event.type \in {"Fill", "OrderCancelled"} THEN {event.order_id}
    ELSE IF event.type = "Trade" THEN {event.maker_order_id, event.taker_order_id}
    ELSE {}

\* C14: Filled and Cancelled are terminal: after a Fill with remaining_quantity
\* 0 or an OrderCancelled was sent for an order id, no later command sends a
\* Fill, a Trade (as maker or as taker) or an OrderCancelled for that id
\* (order ids being unique).
C14_TerminalStaysTerminal ==
    [][\A i \in DOMAIN out' : ReferencedIds(out'[i]) \cap terminal = {}]_vars

\* a Place trades with a maker that was accepted after an order that is
\* terminal by now, and none of its events refers to that order
C14_Witness ==
    /\ cmd.kind = "Place"
    /\ OutTrades # << >>
    /\ \E order_id \in terminal :
          /\ order_id < OutTrades[1].maker_order_id
          /\ \A i \in DOMAIN out : order_id \notin ReferencedIds(out[i])

\* C15: a market order never rests: when a Market PlaceOrder has been
\* processed, whatever the liquidity, its id is not in the order table and in
\* no level's FIFO, its own side is as it was, and the opposite side got no
\* new level.
C15_MarketNeverRests ==
    [][(cmd'.kind = "Place" /\ cmd'.order.order_type = "Market") =>
          /\ cmd'.order.order_id \notin DOMAIN orderbook'.orders
          /\ \A side \in Sides : \A p \in DOMAIN SideOf(orderbook', side) :
                Occurrences(SideOf(orderbook', side)[p].orders, cmd'.order.order_id) = 0
          /\ SideOf(orderbook', cmd'.order.side) = SideOf(orderbook, cmd'.order.side)
          /\ DOMAIN SideOf(orderbook', Opposite(cmd'.order.side))
                \subseteq DOMAIN SideOf(orderbook, Opposite(cmd'.order.side))]_vars

\* a market order that was filled in part and whose rest found no liquidity
C15_Witness ==
    /\ cmd.kind = "Place"
    /\ cmd.order.order_type = "Market"
    /\ OutTakerFills # << >>
    /\ OutTakerFills[Len(OutTakerFills)].remaining_quantity > 0

\* ---- market orders
\* the quantity resting on a side: the sum of its levels' aggregates
RECURSIVE Liquidity(_)
Liquidity(levels) ==
    IF DOMAIN levels = {} THEN 0
    ELSE levels[SetMin(DOMAIN levels)].total_quantity
         + Liquidity(RemoveKeys(levels, {SetMin(DOMAIN levels)}))

\* the texts among the messages of the engine that contain "liquidity"
LiquidityTexts == {"Insufficient liquidity"}

\* message: the parts of an error's Display
MentionsLiquidity(message) == \E i \in DOMAIN message : message[i] \in LiquidityTexts

FilledQuantities(fills) == SumSeq([i \in 1..Len(fills) |-> fills[i].filled_quantity])

\* C16: a valid Market PlaceOrder (quantity > 0, no price) that cannot be
\* filled in full, the empty opposite side included, is acknowledged, then
\* gets the fills that are available, and ends with an OrderReject with reason
\* InvalidOrder whose message contains "liquidity"; with an empty opposite side
\* the events are exactly the Ack and that Reject.
C16_MarketNoLiquidityReject ==
    [][(/\ cmd'.kind = "Place"
        /\ cmd'.order.order_type = "Market"
        /\ cmd'.order.quantity > 0
        /\ cmd'.order.price = NoPrice
        /\ cmd'.order.quantity
             > Liquidity(SideOf(orderbook, Opposite(cmd'.order.side)))) =>
          /\ Len(out') >= 2
          /\ out'[1].type = "OrderAck"
          /\ FilledQuantities(SelectSeq(out', LAMBDA e :
                 e.type = "Fill" /\ e.order_id = cmd'.order.order_id))
               = Liquidity(SideOf(orderbook, Opposite(cmd'.order.side)))
          /\ out'[Len(out')].type = "OrderReject"
          /\ out'[Len(out')].reason = "InvalidOrder"
          /\ MentionsLiquidity(out'[Len(out')].message)
          /\ SideOf(orderbook, Opposite(cmd'.order.side)) = EmptyMap => Len(out') = 2]_vars

\* C17: a Market order with quantity q > 0 matches the opposite side from the
\* best price outward with no price limit: it trades min(q, opposite
\* liquidity), its first Trade is made at the best opposite price, the prices
\* of its Trades never return to a better one, and each Trade is priced at a
\* level of the opposite side (the maker's).
C17_MarketWalksWholeSide ==
    [][(/\ cmd'.kind = "Place"
        /\ cmd'.order.order_type = "Market"
        /\ cmd'.order.quantity > 0) =>
          LET opp == SideOf(orderbook, Opposite(cmd'.order.side))
              t == SelectSeq(out', LAMBDA e : e.type = "Trade")
          IN  /\ SumSeq([i \in 1..Len(t) |-> t[i].quantity])
                   = Min(cmd'.order.quantity, Liquidity(opp))
              /\ \A i \in 1..Len(t) :
                    /\ t[i].taker_order_id = cmd'.order.order_id
                    /\ t[i].price \in DOMAIN opp
                    /\ t[i].maker_order_id \in DOMAIN orderbook.orders
                    /\ orderbook.orders[t[i].maker_order_id].price = t[i].price
              /\ t # << >> =>
                    \A p \in DOMAIN opp : ~Better(cmd'.order.side, p, t[1].price)
              /\ \A i \in 1..(Len(t) - 1) :
                    ~Better(cmd'.order.side, t[i + 1].price, t[i].price)]_vars

\* C18: every Trade of a Limit Buy taker with limit price p has price <= p,
\* every Trade of a Limit Sell taker has price >= p, and the price of a Trade
\* and the filled_price of its two Fills is the price of the level the maker
\* rested at, on the opposite side.
C18_LimitPriceBound ==
    [][(cmd'.kind = "Place" /\ cmd'.order.order_type = "Limit") =>
          LET t == SelectSeq(out', LAMBDA e : e.type = "Trade")
              f == SelectSeq(out', LAMBDA e : e.type = "Fill")
          IN  /\ Len(f) = 2 * Len(t)
              /\ \A k \in 1..Len(t) :
                    /\ ~Better(cmd'.order.side, cmd'.order.price, t[k].price)
                    /\ t[k].maker_order_id \in DOMAIN orderbook.orders
                    /\ orderbook.orders[t[k].maker_order_id].price = t[k].price
                    /\ orderbook.orders[t[k].maker_order_id].side = Opposite(cmd'.order.side)
                    /\ t[k].price \in DOMAIN SideOf(orderbook, Opposite(cmd'.order.side))
                    /\ f[2 * k - 1].order_id = t[k].maker_order_id
                    /\ f[2 * k - 1].filled_price = t[k].price
                    /\ f[2 * k].order_id = cmd'.order.order_id
                    /\ f[2 * k].filled_price = t[k].price]_vars

\* a limit taker traded at a maker's price that is better than its own limit
C18_Witness ==
    /\ cmd.kind = "Place"
    /\ cmd.order.order_type = "Limit"
    /\ OutTrades # << >>
    /\ \E k \in DOMAIN OutTrades : OutTrades[k].price # cmd.order.price

\* the FIFO of the level at a price, empty when there is no such level
FifoAt(levels, price) == IF price \in DOMAIN levels THEN levels[price].orders ELSE << >>

AggregateAt(levels, price) ==
    IF price \in DOMAIN levels THEN levels[price].total_quantity ELSE 0

\* C19: a Limit taker that keeps remaining_quantity > 0 after the walk is
\* inserted on its own side at its own limit price with that remaining
\* quantity, at the tail of the level's FIFO (the level is created if absent),
\* where later takers find it; a Limit taker whose remaining reached 0 is not
\* inserted and its own side stays as it was.
C19_RemainderRests ==
    [][(cmd'.kind = "Place" /\ cmd'.order.order_type = "Limit"
        /\ cmd'.order.quantity > 0 /\ cmd'.order.price > 0) =>
          LET o == cmd'.order
              own == SideOf(orderbook, o.side)
              own_after == SideOf(orderbook', o.side)
              left == o.quantity
                        - FilledQuantities(SelectSeq(out', LAMBDA e :
                              e.type = "Fill" /\ e.order_id = o.order_id))
          IN  IF left > 0
              THEN /\ o.order_id \in DOMAIN orderbook'.orders
                   /\ orderbook'.orders[o.order_id].remaining_quantity = left
                   /\ orderbook'.orders[o.order_id].quantity = o.quantity
                   /\ orderbook'.orders[o.order_id].price = o.price
                   /\ orderbook'.orders[o.order_id].side = o.side
                   /\ o.price \in DOMAIN own_after
                   /\ own_after[o.price].orders = Append(FifoAt(own, o.price), o.order_id)
                   /\ own_after[o.price].total_quantity = AggregateAt(own, o.price) + left
                   /\ \A p \in DOMAIN own_after \ {o.price} :
                         p \in DOMAIN own /\ own_after[p] = own[p]
                   /\ \A p \in DOMAIN SideOf(orderbook', Opposite(o.side)) :
                         Better(o.side, o.price, p)
                            \/ ~HoldsLiveOrder(SideOf(orderbook', Opposite(o.side))[p])
              ELSE /\ left = 0
                   /\ o.order_id \notin DOMAIN orderbook'.orders
                   /\ own_after = own]_vars

\* a limit taker that traded and rests with the remainder at a new level next
\* to another level of its side
C19_Witness ==
    /\ cmd.kind = "Place"
    /\ cmd.order.order_type = "Limit"
    /\ OutTakerFills # << >>
    /\ cmd.order.order_id \in DOMAIN orderbook.orders
    /\ Cardinality(DOMAIN SideBook(cmd.order.side)) >= 2
    /\ SideBook(cmd.order.side)[cmd.order.price].orders = <<cmd.order.order_id>>

\* the sum of the quantities of the first n trades
TradedBefore(trades, n) == SumSeq([i \in 1..n |-> trades[i].quantity])

\* C20: each match of a Place fills min(maker remaining, taker remaining): the
\* maker Fill and the taker Fill of the match carry the filled_quantity and
\* the filled_price of its Trade, each Fill's remaining_quantity is what its
\* order has left after the fill, and a maker that is filled in part stays at
\* the head of its level with the reduced remaining quantity.
C20_FillQuantities ==
    [][cmd'.kind = "Place" =>
          LET t == SelectSeq(out', LAMBDA e : e.type = "Trade")
              f == SelectSeq(out', LAMBDA e : e.type = "Fill")
          IN  /\ Len(f) = 2 * Len(t)
              /\ \A k \in 1..Len(t) :
                    LET maker == orderbook.orders[t[k].maker_order_id]
                        taker_left == cmd'.order.quantity - TradedBefore(t, k - 1)
                    IN  /\ t[k].quantity = Min(maker.remaining_quantity, taker_left)
                        /\ t[k].quantity > 0
                        /\ f[2 * k - 1].order_id = maker.order_id
                        /\ f[2 * k - 1].filled_quantity = t[k].quantity
                        /\ f[2 * k - 1].filled_price = t[k].price
                        /\ f[2 * k - 1].remaining_quantity
                             = maker.remaining_quantity - t[k].quantity
                        /\ f[2 * k].order_id = cmd'.order.order_id
                        /\ f[2 * k].filled_quantity = t[k].quantity
                        /\ f[2 * k].filled_price = t[k].price
                        /\ f[2 * k].remaining_quantity = taker_left - t[k].quantity
                        /\ IF f[2 * k - 1].remaining_quantity > 0
                           THEN /\ maker.order_id \in DOMAIN orderbook'.orders
                                /\ orderbook'.orders[maker.order_id].remaining_quantity
                                     = f[2 * k - 1].remaining_quantity
                                /\ Head(SideOf(orderbook', maker.side)[maker.price].orders)
                                     = maker.order_id
                           ELSE maker.order_id \notin DOMAIN orderbook'.orders]_vars

\* a Place that filled one maker in full and the next one in part
C20_Witness ==
    /\ cmd.kind = "Place"
    /\ Len(OutMakerFills) >= 2
    /\ OutMakerFills[1].remaining_quantity = 0
    /\ OutMakerFills[Len(OutMakerFills)].remaining_quantity > 0

\* the set of the makers of a sequence of trades
Makers(trades) == {trades[i].maker_order_id : i \in DOMAIN trades}

Snapshot(levels, keys) ==
    [i \in 1..DEPTH_LIMIT |->
        IF i <= Len(keys)
        THEN [price |-> keys[i], quantity |-> levels[keys[i]].total_quantity]
        ELSE [price |-> 0, quantity |-> 0]]

BookUpdatesOf(events) == SelectSeq(events, LAMBDA e : e.type = "BookUpdate")

\* C22: an accepted Limit Place that changes the book (a trade, or the taker
\* rests) sends exactly one BookUpdate, as its last event, showing the book as
\* the Place left it; a Limit order that rests without a match sends exactly
\* the Ack and that BookUpdate.
C22_OneBookUpdateLast ==
    (/\ Accepted
     /\ cmd.order.order_type = "Limit"
     /\ (OutTrades # << >> \/ cmd.order.order_id \in DOMAIN orderbook.orders)) =>
       /\ Len(BookUpdatesOf(out)) = 1
       /\ out[Len(out)].type = "BookUpdate"
       /\ out[Len(out)].bids = Snapshot(orderbook.bids, Descending(DOMAIN orderbook.bids))
       /\ out[Len(out)].asks = Snapshot(orderbook.asks, Ascending(DOMAIN orderbook.asks))
       /\ OutTrades = << >> => Len(out) = 2

\* a limit order that found nothing to match and rests
C22_Witness ==
    /\ Accepted
    /\ cmd.order.order_type = "Limit"
    /\ OutTrades = << >>
    /\ cmd.order.order_id \in DOMAIN orderbook.orders
    /\ Cardinality(AllLevels) >= 2

\* C23: a BookUpdate sent while a side of the book holds no price level
\* carries the empty list for that side: after a Place that fills the only
\* maker and the taker in full it has bids = [] and asks = [], and after the
\* cancel of the only resting ask it has asks = [].
C23_EmptySideEmptyList ==
    (out # << >> /\ out[Len(out)].type = "BookUpdate") =>
       /\ orderbook.bids = EmptyMap => out[Len(out)].bids = << >>
       /\ orderbook.asks = EmptyMap => out[Len(out)].asks = << >>

\* the producer that sent a command
CommandUser(c) == IF c.kind = "Place" THEN c.order.user_id ELSE c.cancel_order.user_id

\* the sequence numbers of the messages waiting in the channel
WaitingSeqs == [i \in DOMAIN order_rx |-> order_rx[i].seq]

\* C25: commands are processed one at a time in the order they were enqueued,
\* whichever producer enqueued them: the command handled is the oldest one
\* waiting, its number is one more than the number handled so far, the waiting
\* messages are the numbers in between in order, and the events of one
\* command are appended to the outbound stream as one block after the events
\* of every earlier command (the stream's tags never decrease).
C25_EnqueueOrderIsCommitOrder ==
    /\ [][processed' # processed =>
            /\ processed' = processed + 1
            /\ order_rx # << >>
            /\ Head(order_rx).seq = processed'
            /\ cmd' = Head(order_rx).command
            /\ out' # << >>
            /\ stream' = stream \o [i \in 1..Len(out') |-> processed']]_vars
    /\ [](WaitingSeqs = [i \in 1..(enqueued - processed) |-> processed + i])
    /\ [](\A i, j \in DOMAIN stream : i < j => stream[i] <= stream[j])

\* two producers have enqueued, the engine handled the command of one and then
\* the command of the other, and a third command is waiting
C25_Witness ==
    /\ processed = 2
    /\ stream # << >>
    /\ stream[1] = 1
    /\ stream[Len(stream)] = 2
    /\ CommandUser(cmd) = 200
    /\ order_rx # << >>
    /\ CommandUser(Head(order_rx).command) = 100

\* C26: shutdown. The engine leaves its loop only when every command sender
\* has been dropped and no command is waiting, so every enqueued command
\* was handled and its events are in the outbound stream; the outbound event
\* sender is dropped only after that; and once every sender has been dropped
\* the engine does get there: it handles what is waiting, sees the closed
\* signal, returns and drops the event sender.
C26_ShutdownDrainsThenCloses ==
    /\ [][pc = "loop" /\ pc' # "loop" =>
            /\ senders = {}
            /\ order_rx = << >>
            /\ processed = enqueued
            /\ UNCHANGED <<orderbook, stream, processed>>]_vars
    /\ [](pc # "loop" =>
            /\ processed = enqueued
            /\ order_rx = << >>
            /\ \A s \in 1..enqueued : \E i \in DOMAIN stream : stream[i] = s)
    /\ [](event_tx = "dropped" <=> pc = "returned")
    /\ (senders = {}) ~> (pc = "returned" /\ event_tx = "dropped" /\ processed = enqueued)

\* the engine has returned and dropped the event sender after every producer
\* left and several commands were handled
C26_Witness ==
    /\ senders = {}
    /\ pc = "returned"
    /\ event_tx = "dropped"
    /\ enqueued >= 2
    /\ processed = enqueued
    /\ Len(stream) >= enqueued

\* the command handled last was rejected without having traded
Rejected ==
    /\ \E i \in DOMAIN out : out[i].type = "OrderReject"
    /\ \A i \in DOMAIN out : out[i].type # "Fill"

\* C27: no command is fatal. A step that handles a command leaves the engine in
\* its loop with the event sender open, whatever the command was; a rejected
\* command leaves the order book as it was, so every later command meets the
\* book it would have met without it; and the loop is left only on the closed
\* signal: no sender alive and no command waiting.
C27_NoCommandIsFatal ==
    /\ [][processed' # processed => pc' = "loop" /\ event_tx' = "open"]_vars
    /\ [][processed' # processed /\ Rejected' =>
            /\ orderbook' = orderbook
            /\ trade_log' = trade_log
            /\ terminal' = terminal]_vars
    /\ [][pc = "loop" /\ pc' # "loop" => channel_closed(order_rx, senders)]_vars
    /\ [](pc = "loop" /\ order_rx # << >> => RecvEnabled)

\* a limit order rests after the Place before it was rejected: the first
\* order id is not in the book, the second is, and the engine is in its loop
C27_Witness ==
    /\ processed = 2
    /\ pc = "loop"
    /\ event_tx = "open"
    /\ DOMAIN orderbook.orders = {2}
    /\ cmd.kind = "Place"
    /\ cmd.order.order_id = 2
    /\ ~Rejected

\* the ids some FIFO of the book lists
ListedIds == UNION {{l.level.orders[i] : i \in DOMAIN l.level.orders} : l \in AllLevels}

\* the orders the events of the last command report as filled completely
FilledOut == {out[i].order_id : i \in {j \in DOMAIN out :
                 out[j].type = "Fill" /\ out[j].remaining_quantity = 0}}

\* C28: after every command, every order of the order table has
\* 0 < remaining_quantity <= quantity and price > 0; no price level of either
\* side has a zero aggregate or an empty FIFO; and an order whose Fill of this
\* command reports remaining 0 is, after the same command, neither in the
\* order table nor listed in a FIFO.
C28_NoZombieEntries ==
    /\ \A id \in DOMAIN orderbook.orders :
          /\ 0 < orderbook.orders[id].remaining_quantity
          /\ orderbook.orders[id].remaining_quantity <= orderbook.orders[id].quantity
          /\ orderbook.orders[id].price > 0
    /\ \A l \in AllLevels :
          /\ l.level.total_quantity > 0
          /\ l.level.orders # << >>
    /\ \A id \in FilledOut : id \notin DOMAIN orderbook.orders /\ id \notin ListedIds

\* a taker filled a maker completely at a price where the maker was the only
\* order, and other orders still rest: the maker's level is gone
C28_Witness ==
    /\ cmd.kind = "Place"
    /\ \E i \in DOMAIN out :
          /\ out[i].type = "Fill"
          /\ out[i].remaining_quantity = 0
          /\ out[i].order_id # cmd.order.order_id
          /\ out[i].filled_price \notin DOMAIN SideBook(out[i].side)
    /\ DOMAIN orderbook.orders # {}
    /\ AllLevels # {}

\* price p comes before price q in the priority order of a side book
Before(side, p, q) == IF side = "Buy" THEN p > q ELSE p < q

\* arr is the top-CACHE_LIMIT aggregation of a side book with n shown levels:
\* (price, aggregate) pairs of levels of the book in priority order, no level
\* left out that comes before a shown one, and (0, 0) beyond the n-th entry
IsTopOf(arr, levels, side, n) ==
    /\ Len(arr) = CACHE_LIMIT
    /\ \A i \in 1..n :
          /\ arr[i][1] \in DOMAIN levels
          /\ arr[i][2] = levels[arr[i][1]].total_quantity
    /\ \A i \in 1..(n - 1) : Before(side, arr[i][1], arr[i + 1][1])
    /\ \A p \in DOMAIN levels :
          \/ \E i \in 1..n : arr[i][1] = p
          \/ \A i \in 1..n : Before(side, arr[i][1], p)
    /\ \A i \in (n + 1)..CACHE_LIMIT : arr[i] = <<0, 0>>

\* the cache of book ob is the aggregation of ob's two side books
CacheIsAggregation(ob) ==
    /\ IsTopOf(ob.depth_cache.bids, ob.bids, "Buy",
               Min(Cardinality(DOMAIN ob.bids), CACHE_LIMIT))
    /\ IsTopOf(ob.depth_cache.asks, ob.asks, "Sell",
               Min(Cardinality(DOMAIN ob.asks), CACHE_LIMIT))

\* d, what get_depth(ob, limit) returned, is the first min(limit, CACHE_LIMIT)
\* entries of the aggregation of ob's side books, and left the cache fresh
ReadsAggregation(d, ob, limit) ==
    /\ d.orderbook.depth_cache.is_latest
    /\ d.orderbook.bids = ob.bids
    /\ d.orderbook.asks = ob.asks
    /\ CacheIsAggregation(d.orderbook)
    /\ d.depth.bids = SubSeq(d.orderbook.depth_cache.bids, 1, Min(limit, CACHE_LIMIT))
    /\ d.depth.asks = SubSeq(d.orderbook.depth_cache.asks, 1, Min(limit, CACHE_LIMIT))

DepthLimits == {0, 1, DEPTH_LIMIT, CACHE_LIMIT, CACHE_LIMIT + 1}

\* the orders add_order may be handed in the current state
AddableOrders ==
    {OrderEntry_new(next_order_id, user_id, side, price, quantity) :
        user_id \in PlaceUsers, side \in Sides,
        price \in 1..MaxPrice, quantity \in 1..MaxQty}

\* a mutated book has the flag cleared, and the next read refreshes it
ClearedThenRead(ob) ==
    /\ ~ob.depth_cache.is_latest
    /\ \A limit \in DepthLimits : ReadsAggregation(get_depth(ob, limit), ob, limit)

\* C29: whenever the freshness flag of the depth cache is set, the bids array
\* is the first 25 bid levels in descending price order and the asks array the
\* first 25 ask levels in ascending price order, as (price, aggregate), with
\* (0, 0) beyond the existing levels; get_depth(limit) returns the first
\* min(limit, 25) entries of each array of the refreshed cache; add_order and
\* remove_order leave the flag cleared, so the next read refreshes; and a Place
\* that filled leaves the cache refreshed after its fills and shows its first
\* 20 entries in its BookUpdate.
C29_DepthCacheInvariant ==
    /\ orderbook.depth_cache.is_latest => CacheIsAggregation(orderbook)
    /\ \A limit \in DepthLimits :
          ReadsAggregation(get_depth(orderbook, limit), orderbook, limit)
    /\ \A order \in AddableOrders :
          ClearedThenRead(OrderBook_add_order(orderbook, order).orderbook)
    /\ \A order_id \in DOMAIN orderbook.orders :
          ClearedThenRead(OrderBook_remove_order(orderbook, order_id).orderbook)
    /\ (\E i \in DOMAIN out : out[i].type = "Fill") =>
          /\ orderbook.depth_cache.is_latest
          /\ BookUpdatesOf(out) # << >>
          /\ \A side \in Sides :
                ShownEntries(BookUpdatesOf(out)[1], side)
                  = [i \in 1..DEPTH_LIMIT |->
                        [price |-> (IF side = "Buy" THEN orderbook.depth_cache.bids
                                    ELSE orderbook.depth_cache.asks)[i][1],
                         quantity |-> (IF side = "Buy" THEN orderbook.depth_cache.bids
                                       ELSE orderbook.depth_cache.asks)[i][2]]]

\* a taker was filled completely against part of a level while the cache was
\* fresh: the aggregate of a level that stays changed, and the cache is fresh
C29_Witness ==
    /\ cmd.kind = "Place"
    /\ orderbook.depth_cache.is_latest
    /\ \E i \in DOMAIN out :
          /\ out[i].type = "Fill"
          /\ out[i].order_id # cmd.order.order_id
          /\ out[i].filled_price \in DOMAIN SideBook(out[i].side)
    /\ cmd.order.order_id \notin DOMAIN orderbook.orders
    /\ \E l \in AllLevels : l.level.total_quantity > 0

\* add_order(order) followed by remove_order(order.order_id)
RoundTrip(ob, order) ==
    OrderBook_remove_order(OrderBook_add_order(ob, order).orderbook, order.order_id).orderbook

\* after is ob restored at the price and side of order
Restored(ob, after, order) ==
    /\ (order.price \in DOMAIN SideOf(after, order.side))
          = (order.price \in DOMAIN SideOf(ob, order.side))
    /\ order.price \in DOMAIN SideOf(ob, order.side) =>
          /\ SideOf(after, order.side)[order.price].total_quantity
                = SideOf(ob, order.side)[order.price].total_quantity
          /\ SideOf(after, order.side)[order.price].orders
                = SideOf(ob, order.side)[order.price].orders
    /\ get_depth(after, DEPTH_LIMIT).depth = get_depth(ob, DEPTH_LIMIT).depth

\* C30: from every reachable book, add_order of a new order followed by
\* remove_order of the same id restores, at that order's price and side, the
\* level's aggregate, the ids its FIFO lists (the level's absence if it did
\* not exist) and the depth get_depth returns.
C30_AddRemoveRoundTrip ==
    \A order \in AddableOrders : Restored(orderbook, RoundTrip(orderbook, order), order)

\* d1 is what a first get_depth returned; a second get_depth with the same
\* limit on the book the first one left returns the same snapshot and leaves
\* the book, cache arrays and flag included, as the first one left it
SecondReadSame(d1, limit) ==
    /\ d1.orderbook.depth_cache.is_latest
    /\ get_depth(d1.orderbook, limit).depth = d1.depth
    /\ get_depth(d1.orderbook, limit).orderbook = d1.orderbook

ReadTwice(ob) == \A limit \in DepthLimits : SecondReadSame(get_depth(ob, limit), limit)

\* C31: two consecutive get_depth calls with the same limit and no mutation in
\* between return equal snapshots, and the second call leaves the cache arrays
\* and the freshness flag unchanged; from the book as a command left it, and
\* from a book whose cache add_order or remove_order has just made stale.
C31_DepthRefreshIdempotent ==
    /\ ReadTwice(orderbook)
    /\ \A order \in AddableOrders : ReadTwice(OrderBook_add_order(orderbook, order).orderbook)
    /\ \A order_id \in DOMAIN orderbook.orders :
          ReadTwice(OrderBook_remove_order(orderbook, order_id).orderbook)

\* orders rest on both sides and the cache is fresh, so that an add or a
\* remove leaves a stale cache that differs from the book
C31_Witness ==
    /\ orderbook.depth_cache.is_latest
    /\ DOMAIN orderbook.bids # {}
    /\ DOMAIN orderbook.asks # {}
    /\ Cardinality(DOMAIN orderbook.orders) >= 2

\* the side book a Place walks, as the Place found it
WalkedLevels == SideOf(book_before, Opposite(cmd.order.side))

\* the first price of the walk
BestWalked ==
    IF cmd.order.side = "Buy" THEN SetMin(DOMAIN WalkedLevels) ELSE SetMax(DOMAIN WalkedLevels)

\* the positions of a FIFO whose id was in the order table before the command
LivePositions(level) == {i \in DOMAIN level.orders : level.orders[i] \in DOMAIN book_before.orders}

\* the ids ahead of the first live id of a FIFO
StalePrefix(level) ==
    {level.orders[i] : i \in 1..(SetMin(LivePositions(level)) - 1)}

\* the first id of a FIFO that was in the order table before the command
FirstLive(level) == book_before.orders[level.orders[SetMin(LivePositions(level))]]

\* the command handled last was a valid Limit Place whose walk started at a
\* level whose FIFO head was not in the order table
SweepCase ==
    /\ cmd.kind = "Place"
    /\ cmd.reply_open
    /\ cmd.order.order_type = "Limit"
    /\ Validated
    /\ DOMAIN WalkedLevels # {}
    /\ (IF cmd.order.side = "Buy" THEN BestWalked <= cmd.order.price
        ELSE BestWalked >= cmd.order.price)
    /\ Head(WalkedLevels[BestWalked].orders) \notin DOMAIN book_before.orders
    /\ LivePositions(WalkedLevels[BestWalked]) # {}

TradedAt(trades, price) ==
    SumSeq([i \in 1..Len(trades) |-> IF trades[i].price = price THEN trades[i].quantity ELSE 0])

\* what the sweep leaves: level is the swept level, maker its first live order
SweepOutcome(level, maker) ==
    /\ Len(out) = 2 + 3 * Len(OutTrades)
    /\ Len(OutTrades) >= 1
    /\ \A i \in DOMAIN out :
          /\ out[i].type \in {"OrderAck", "Fill", "Trade", "BookUpdate"}
          /\ out[i].type = "Fill" => out[i].order_id \notin StalePrefix(level)
          /\ out[i].type = "Trade" => out[i].maker_order_id \notin StalePrefix(level)
    /\ out[2].type = "Fill"
    /\ out[2].order_id = maker.order_id
    /\ out[2].filled_price = level.price
    /\ out[2].filled_quantity = Min(maker.remaining_quantity, cmd.order.quantity)
    /\ out[3].type = "Fill"
    /\ out[3].order_id = cmd.order.order_id
    /\ out[3].remaining_quantity
          = cmd.order.quantity - Min(maker.remaining_quantity, cmd.order.quantity)
    /\ OutTrades[1].trade_id = book_before.next_trade_id
    /\ OutTrades[1].maker_order_id = maker.order_id
    /\ orderbook.next_trade_id = book_before.next_trade_id + Len(OutTrades)
    /\ AggregateAt(SideOf(orderbook, Opposite(cmd.order.side)), level.price)
          = level.total_quantity - TradedAt(OutTrades, level.price)
    /\ \A i \in DOMAIN FifoAt(SideOf(orderbook, Opposite(cmd.order.side)), level.price) :
          FifoAt(SideOf(orderbook, Opposite(cmd.order.side)), level.price)[i]
             \notin StalePrefix(level)

\* C32: when the head of the FIFO of the level a Limit Place matches first is
\* not in the order table, the Place pops it and goes on: no event names the
\* popped ids, the first Trade carries the next trade id as the Place found
\* it and one trade id is used per Trade, the first match is with the first
\* live order of that level for min(its remaining, the taker's whole
\* quantity), the level's aggregate drops by the traded quantity only, and
\* the popped ids are gone from the FIFO.
C32_StaleHeadSwept ==
    SweepCase => SweepOutcome(WalkedLevels[BestWalked], FirstLive(WalkedLevels[BestWalked]))

\* a Place met a stale head with a live order behind it and traded with that
\* order
C32_Witness ==
    /\ SweepCase
    /\ OutTrades # << >>
    /\ OutTrades[1].maker_order_id = FirstLive(WalkedLevels[BestWalked]).order_id
    /\ StalePrefix(WalkedLevels[BestWalked]) # {}

\* the number of ids the FIFOs of a side book list
RECURSIVE ListedCount(_, _)
ListedCount(levels, keys) ==
    IF keys = {} THEN 0
    ELSE Len(levels[SetMin(keys)].orders) + ListedCount(levels, keys \ {SetMin(keys)})

\* what the body of the while loop consumes: taker quantity and listed ids
Fuel(w) == w.st.taker.remaining_quantity + ListedCount(w.st.levels, DOMAIN w.st.levels)

PcRank(w) == IF w.pc = "for" THEN 2 ELSE IF w.pc = "while" THEN 1 ELSE 0

\* the loops are further on in w2 than in w1
FurtherOn(w1, w2) ==
    \/ Fuel(w2) < Fuel(w1)
    \/ Fuel(w2) = Fuel(w1) /\ Len(w2.keys) < Len(w1.keys)
    \/ Fuel(w2) = Fuel(w1) /\ Len(w2.keys) = Len(w1.keys) /\ PcRank(w2) < PcRank(w1)

\* the body of the while loop popped a stale id: st1 before, st2 after
PoppedStale(st1, st2, price) ==
    /\ Head(st1.levels[price].orders) \notin DOMAIN st1.orders
    /\ st2.levels[price].orders = Tail(st1.levels[price].orders)
    /\ st2.levels[price].total_quantity = st1.levels[price].total_quantity
    /\ st2.taker = st1.taker
    /\ st2.orders = st1.orders
    /\ st2.trades = st1.trades
    /\ st2.fills = st1.fills
    /\ st2.err = ""

\* the body of the while loop filled a positive quantity
FilledPositive(st1, st2, price) ==
    /\ Head(st1.levels[price].orders) \in DOMAIN st1.orders
    /\ Len(st2.trades) = Len(st1.trades) + 1
    /\ st2.trades[Len(st2.trades)].quantity > 0
    /\ st2.trades[Len(st2.trades)].maker_order_id = Head(st1.levels[price].orders)
    /\ st2.taker.remaining_quantity
          = st1.taker.remaining_quantity - st2.trades[Len(st2.trades)].quantity
    /\ st2.levels[price].total_quantity
          = st1.levels[price].total_quantity - st2.trades[Len(st2.trades)].quantity
    /\ st2.err = ""

\* C33: the processing of a Place terminates. Every run of the body of the
\* while loop either pops a stale id or fills a positive quantity, and uses up
\* fuel (taker quantity plus listed ids); every other step of the loops keeps
\* the fuel and moves on to the next price or out of a loop; so a Place that
\* has entered the loops leaves them after at most as many runs of the body as
\* it found fuel, its handler returns with the result match_limit_order
\* computes, and the engine is back at the dequeue.
C33_MatchingTerminates ==
    /\ [][walking.pc = "while" /\ walking'.pc # "idle"
            /\ walking'.iterations # walking.iterations =>
            /\ \/ PoppedStale(walking.st, walking'.st, Head(walking.keys))
               \/ FilledPositive(walking.st, walking'.st, Head(walking.keys))
            /\ Fuel(walking') < Fuel(walking)]_vars
    /\ [][walking.pc \in {"for", "while"} /\ walking' # walking =>
            FurtherOn(walking, walking')]_vars
    /\ [][walking.pc = "end" /\ walking'.pc = "idle" =>
            /\ orderbook' = handle_place_order(orderbook, walking.order, TRUE).orderbook
            /\ out' = handle_place_order(orderbook, walking.order, TRUE).out]_vars
    /\ [](walking.pc # "idle" =>
            walking.iterations + Fuel(walking)
               <= walking.order.quantity
                    + ListedCount(SideOf(orderbook, Opposite(walking.order.side)),
                                  DOMAIN SideOf(orderbook, Opposite(walking.order.side))))
    /\ (walking.pc # "idle") ~> (walking.pc = "idle")

\* the loops of a Place have ended after the body of the while loop popped a
\* stale id and filled a live order behind it
C33_Witness ==
    /\ walking.pc = "end"
    /\ walking.iterations >= 2
    /\ walking.st.trades # << >>
    /\ \E p \in DOMAIN SideOf(orderbook, Opposite(walking.order.side)) :
          /\ Head(SideOf(orderbook, Opposite(walking.order.side))[p].orders)
                \notin DOMAIN orderbook.orders
          /\ walking.st.trades[1].price = p

\* the engine thread cannot take a step
EngineWaits ==
    /\ pc # "returned"
    /\ ~RecvEnabled
    /\ ~(pc = "loop" /\ channel_closed(order_rx, senders))
    /\ pc # "shutdown"

\* C34: the engine waits in one place only, the dequeue on an inbound channel
\* that is empty while a sender is alive; the number of events the consumer
\* has not received never makes it wait, and with a consumer that stalls at
\* any point every command enqueued is still handled.
C34_OnlyTheDequeueBlocks ==
    /\ [](EngineWaits <=> (pc = "loop" /\ order_rx = << >> /\ senders # {}))
    /\ \A n \in 1..MaxCommands : (enqueued >= n) ~> (processed >= n)

\* the engine handled a command while events of an earlier command were
\* still waiting for the consumer
C34_Witness ==
    /\ processed >= 2
    /\ consumed = 0
    /\ stream # << >>
    /\ stream[1] = 1
    /\ stream[Len(stream)] = processed
    /\ Len(stream) >= 4

\* C35: after every command, when both sides of the book hold a level, the
\* best bid price is strictly lower than the best ask price.
C35_BookNeverCrossed ==
    (DOMAIN orderbook.bids # {} /\ DOMAIN orderbook.asks # {}) =>
        SetMax(DOMAIN orderbook.bids) < SetMin(DOMAIN orderbook.asks)

\* a Limit taker traded at the crossing price, rested with what it had left,
\* and the opposite side still holds a level
C35_Witness ==
    /\ cmd.kind = "Place"
    /\ cmd.order.order_type = "Limit"
    /\ OutTrades # << >>
    /\ cmd.order.order_id \in DOMAIN orderbook.orders
    /\ DOMAIN orderbook.bids # {}
    /\ DOMAIN orderbook.asks # {}

\* C36: a Limit Place that was acknowledged is not rejected afterwards: after
\* the OrderAck of a Limit order no OrderReject is sent, its events are the
\* Ack, Fills, Trades and at most one BookUpdate, and the order ends filled or
\* resting with what its Fills left.
C36_AckedLimitNeverRejected ==
    (/\ cmd.kind = "Place"
     /\ cmd.order.order_type = "Limit"
     /\ out # << >>
     /\ out[1].type = "OrderAck") =>
        /\ \A i \in DOMAIN out : out[i].type # "OrderReject"
        /\ \A i \in 2..Len(out) : out[i].type \in {"Fill", "Trade", "BookUpdate"}
        /\ FilledQuantities(OutTakerFills) <= cmd.order.quantity
        /\ IF cmd.order.order_id \in DOMAIN orderbook.orders
           THEN orderbook.orders[cmd.order.order_id].remaining_quantity
                    = cmd.order.quantity - FilledQuantities(OutTakerFills)
           ELSE FilledQuantities(OutTakerFills) = cmd.order.quantity

\* an acknowledged Limit taker smaller than the maker it met: the maker keeps
\* a remainder, the taker is filled in full
C36_Witness ==
    /\ cmd.kind = "Place"
    /\ cmd.order.order_type = "Limit"
    /\ out # << >>
    /\ out[1].type = "OrderAck"
    /\ OutMakerFills # << >>
    /\ OutMakerFills[1].remaining_quantity > 0
    /\ cmd.order.order_id \notin DOMAIN orderbook.orders

\* the command met an opposite level it could have traded with
CouldTrade ==
    /\ cmd.kind = "Place"
    /\ cmd.order.price # NoPrice
    /\ \E p \in DOMAIN SideOf(book_before, Opposite(cmd.order.side)) :
          IF cmd.order.side = "Buy" THEN p <= cmd.order.price ELSE p >= cmd.order.price

\* C37: a command dequeued when its reply channel is already closed changes
\* nothing in the book and its response is not delivered; a valid Place and a
\* Cancel then emit no event at all (no Ack, no Fill, no OrderCancelled), while
\* a Place that fails validation still emits its OrderReject, alone.
C37_ClosedReplyAbandons ==
    (cmd.kind \in {"Place", "Cancel"} /\ ~cmd.reply_open) =>
        /\ orderbook = book_before
        /\ ~reply.delivered
        /\ IF cmd.kind = "Place" /\ ~Validated
           THEN /\ Len(out) = 1
                /\ out[1].type = "OrderReject"
                /\ out[1].order_id = cmd.order.order_id
                /\ reply.response.kind = "Reject"
           ELSE out = << >>

\* a valid Limit order that met a level it could have traded with, dequeued
\* with the reply channel closed
C37_Witness ==
    /\ cmd.kind = "Place"
    /\ ~cmd.reply_open
    /\ Validated
    /\ CouldTrade
    /\ out = << >>

\* a Cancel of a resting order dequeued with the reply channel closed
C37_CancelWitness ==
    /\ cmd.kind = "Cancel"
    /\ ~cmd.reply_open
    /\ cmd.cancel_order.order_id \in DOMAIN orderbook.orders
    /\ out = << >>

\* an invalid Place whose Reject response could not be delivered still put its
\* OrderReject on the outbound channel
C37_RejectWitness ==
    /\ cmd.kind = "Place"
    /\ ~cmd.reply_open
    /\ ~Validated
    /\ out # << >>
    /\ out[1].type = "OrderReject"

\* C38: the response to a CancelOrder is an Ack that carries the order_id,
\* user_id and symbol of the cancel command, whether or not the order exists.
\* It is sent before the removal: when it cannot be sent nothing is removed.
\* What became of the cancel is told by the events alone: OrderCancelled when
\* the order was in the table (and is no longer), OrderReject when it was not.
C38_CancelReplyIsAlwaysAck ==
    cmd.kind = "Cancel" =>
        /\ reply.response = [kind |-> "Ack",
                             order_id |-> cmd.cancel_order.order_id,
                             user_id |-> cmd.cancel_order.user_id,
                             symbol |-> cmd.cancel_order.symbol]
        /\ reply.delivered = cmd.reply_open
        /\ ~reply.delivered => orderbook.orders = book_before.orders /\ out = << >>
        /\ reply.delivered =>
              IF cmd.cancel_order.order_id \in DOMAIN book_before.orders
              THEN /\ out[1].type = "OrderCancelled"
                   /\ out[1].order_id = cmd.cancel_order.order_id
                   /\ cmd.cancel_order.order_id \notin DOMAIN orderbook.orders
                   /\ \A i \in DOMAIN out : out[i].type # "OrderReject"
              ELSE /\ Len(out) = 1
                   /\ out[1].type = "OrderReject"
                   /\ out[1].order_id = cmd.cancel_order.order_id
                   /\ orderbook.orders = book_before.orders

\* a Cancel that names an order the book does not hold, and another symbol
\* than the book's, was answered with an Ack while its event is an OrderReject
C38_Witness ==
    /\ cmd.kind = "Cancel"
    /\ cmd.cancel_order.order_id \notin DOMAIN book_before.orders
    /\ DOMAIN book_before.orders # {}
    /\ cmd.cancel_order.symbol # BookSymbol
    /\ reply.delivered
    /\ reply.response.kind = "Ack"
    /\ out[1].type = "OrderReject"

\* a Cancel that removed a resting order was answered with the same Ack
C38_CancelledWitness ==
    /\ cmd.kind = "Cancel"
    /\ cmd.cancel_order.order_id \in DOMAIN book_before.orders
    /\ reply.delivered
    /\ reply.response.kind = "Ack"
    /\ out[1].type = "OrderCancelled"

\* the command was a valid Limit Place under the id of an order in the table
DuplicateId ==
    /\ cmd.kind = "Place"
    /\ cmd.order.order_type = "Limit"
    /\ Validated
    /\ cmd.order.order_id \in DOMAIN book_before.orders

\* the order that held the id, and its level before and after the command
Earlier == book_before.orders[cmd.order.order_id]

EarlierLevelBefore == level_or_new(SideOf(book_before, Earlier.side), Earlier.price)

EarlierLevelAfter == level_or_new(SideOf(orderbook, Earlier.side), Earlier.price)

IsNewEntry(e) ==
    /\ e.user_id = cmd.order.user_id
    /\ e.side = cmd.order.side
    /\ e.price = cmd.order.price
    /\ e.quantity = cmd.order.quantity

\* the duplicate traded against a maker listed under its own id
SelfTraded == \E i \in DOMAIN OutTrades : OutTrades[i].maker_order_id = cmd.order.order_id

\* what the duplicate took from the other makers of the earlier order's level
OthersTraded ==
    IF Earlier.side = cmd.order.side THEN 0
    ELSE SumSeq([i \in 1..Len(OutTrades) |->
                    IF /\ OutTrades[i].price = Earlier.price
                       /\ OutTrades[i].maker_order_id # cmd.order.order_id
                    THEN OutTrades[i].quantity ELSE 0])

\* what matching left of the duplicate
TakerLeft ==
    cmd.order.quantity - SumSeq([i \in 1..Len(OutTrades) |-> OutTrades[i].quantity])

\* the duplicate rests in the level of the earlier order
RestsBeside ==
    /\ TakerLeft > 0
    /\ cmd.order.side = Earlier.side
    /\ cmd.order.price = Earlier.price

\* C39 as stated: every valid Limit Place under the id of a resting order is
\* acknowledged and not rejected, the table entry under the id is afterwards
\* the new order's, and the earlier order keeps its FIFO position and its
\* contribution to its level's aggregate.
C39_DuplicateIdAlwaysReplaces ==
    DuplicateId =>
        /\ out[1].type = "OrderAck"
        /\ \A i \in DOMAIN out : out[i].type # "OrderReject"
        /\ cmd.order.order_id \in DOMAIN orderbook.orders
        /\ IsNewEntry(orderbook.orders[cmd.order.order_id])
        /\ Occurrences(EarlierLevelAfter.orders, cmd.order.order_id)
              >= Occurrences(EarlierLevelBefore.orders, cmd.order.order_id)
        /\ EarlierLevelAfter.total_quantity
              >= EarlierLevelBefore.total_quantity - OthersTraded

\* until the command, ids were unique: every id a level of the book lists that
\* is in the table is listed once, in the level of its table entry
UniqueSoFar ==
    \A side \in Sides : \A p \in DOMAIN SideOf(book_before, side) :
        \A i \in DOMAIN SideOf(book_before, side)[p].orders :
            LET id == SideOf(book_before, side)[p].orders[i]
            IN  id \in DOMAIN book_before.orders =>
                   /\ book_before.orders[id].side = side
                   /\ book_before.orders[id].price = p
                   /\ Occurrences(SideOf(book_before, side)[p].orders, id) = 1

\* C39 (amended): every valid Limit Place under the id of a resting order is
\* acknowledged and matched like any other, without a Reject. When it is the
\* first reuse of an id in the book: if matching leaves it a remainder, the
\* table entry under the id is afterwards the new order's, with that
\* remainder; if it is filled in full without trading with its own id, the
\* earlier entry stays; and unless it traded with the maker listed under its
\* own id, the earlier order keeps its FIFO position and its contribution to
\* its level's aggregate: the id is listed as often as before (once more if
\* the duplicate rests in the same level) and the aggregate changes only by
\* what other makers traded and by the remainder of the duplicate.
C39_DuplicateIdReplacesWhenResting ==
    DuplicateId =>
        /\ out[1].type = "OrderAck"
        /\ \A i \in DOMAIN out : out[i].type # "OrderReject"
        /\ (UniqueSoFar /\ TakerLeft > 0) =>
              /\ cmd.order.order_id \in DOMAIN orderbook.orders
              /\ IsNewEntry(orderbook.orders[cmd.order.order_id])
              /\ orderbook.orders[cmd.order.order_id].remaining_quantity = TakerLeft
        /\ (UniqueSoFar /\ TakerLeft = 0 /\ ~SelfTraded) =>
              /\ cmd.order.order_id \in DOMAIN orderbook.orders
              /\ orderbook.orders[cmd.order.order_id] = Earlier
        /\ (UniqueSoFar /\ ~SelfTraded) =>
              /\ Occurrences(EarlierLevelAfter.orders, cmd.order.order_id)
                    = Occurrences(EarlierLevelBefore.orders, cmd.order.order_id)
                        + (IF RestsBeside THEN 1 ELSE 0)
              /\ EarlierLevelAfter.total_quantity
                    = EarlierLevelBefore.total_quantity - OthersTraded
                        + (IF RestsBeside THEN TakerLeft ELSE 0)

\* a duplicate with another user and quantity rested in the level of the
\* earlier order: the id is listed twice and the table holds the new entry
C39_Witness ==
    /\ DuplicateId
    /\ UniqueSoFar
    /\ RestsBeside
    /\ ~IsNewEntry(Earlier)
    /\ Occurrences(EarlierLevelAfter.orders, cmd.order.order_id) = 2
    /\ IsNewEntry(orderbook.orders[cmd.order.order_id])

\* the engine thread is still in the loop of run
EngineInLoop == pc = "loop"

\* C40, state part: while a clone of the Sender is alive, the HTTP server's
\* included, the engine stays in its loop, also after main dropped order_tx;
\* main gets past its join on the engine thread only with the HTTP server's
\* clone released and the engine returned; and the broadcaster has ended only
\* after the engine returned and dropped event_tx, with every event forwarded.
GatewayShutdownOrder ==
    /\ senders # {} => EngineInLoop
    /\ (gateway.main # "running" /\ "http_server" \in senders) =>
          /\ EngineInLoop
          /\ gateway.main = "join_engine"
    /\ gateway.main \in {"join_broadcaster", "join_market_data"} =>
          /\ senders = {}
          /\ pc = "returned"
    /\ gateway.broadcaster = "returned" =>
          /\ pc = "returned"
          /\ event_tx = "dropped"
          /\ consumed = Len(stream)

\* C40, step part: the step in which main drops order_tx does not close the
\* queue while the HTTP server holds its clone; the engine leaves its loop in
\* a step that finds no Sender alive; and once the broadcaster has seen the
\* end of the stream no further event is forwarded.
GatewayShutdownSteps ==
    /\ (gateway.main = "running" /\ gateway'.main = "join_engine"
            /\ "http_server" \in senders) =>
          /\ ~channel_closed(order_rx', senders')
          /\ pc' = pc
    /\ (pc = "loop" /\ pc' # "loop") => senders = {}
    /\ gateway.broadcaster = "returned" =>
          /\ consumed' = consumed
          /\ stream' = stream
          /\ gateway'.broadcaster = "returned"

C40_WaitingWitness ==
    /\ gateway.main = "join_engine"
    /\ "http_server" \in senders
    /\ pc = "loop"
    /\ processed >= 1

====
